---- MODULE Spec2Model ----
(***************************************************************************)
(* Model of the dynamic table manager, its storage backend and the         *)
(* authentication managers of the Navchetna plantation data manager.       *)
(*                                                                         *)
(* Python strings are sequences of one-character strings, so that          *)
(* str.lower, str.replace, str.split and str.strip are computed.  Column   *)
(* names (DataFrame columns, dict keys) are plain TLA+ strings: the code   *)
(* only compares them.                                                     *)
(***************************************************************************)
EXTENDS Integers, Sequences, FiniteSets, TLC

VARIABLES is_online, mongo, files, gsheets, tables_cache, session_state, calls, last

vars == <<is_online, mongo, files, gsheets, tables_cache, session_state, calls, last>>

-----------------------------------------------------------------------------
(* Bounds of the model.                                                    *)

MaxRows == 2

MaxSchemaRows == 1

MaxTables == 2

MaxFields == 1

-----------------------------------------------------------------------------
(* Strings.                                                                *)

UpperChars == <<"A","B","C","D","E","F","G","H","I","J","K","L","M",
                "N","O","P","Q","R","S","T","U","V","W","X","Y","Z">>

LowerChars == <<"a","b","c","d","e","f","g","h","i","j","k","l","m",
                "n","o","p","q","r","s","t","u","v","w","x","y","z">>

Digits == {"0","1","2","3","4","5","6","7","8","9"}

LowerChar(c) ==
    IF \E i \in 1..26 : UpperChars[i] = c
    THEN LowerChars[CHOOSE i \in 1..26 : UpperChars[i] = c]
    ELSE c

\* str.lower()
Lower(s) == [i \in 1..Len(s) |-> LowerChar(s[i])]

\* str.replace(' ', '_')
ReplaceSpace(s) == [i \in 1..Len(s) |-> IF s[i] = " " THEN "_" ELSE s[i]]

RECURSIVE LStrip(_)
LStrip(s) == IF s # <<>> /\ Head(s) = " " THEN LStrip(Tail(s)) ELSE s

RECURSIVE RStrip(_)
RStrip(s) ==
    IF s # <<>> /\ s[Len(s)] = " " THEN RStrip(SubSeq(s, 1, Len(s) - 1)) ELSE s

\* str.strip()
Strip(s) == LStrip(RStrip(s))

RECURSIVE SplitComma(_)
\* str.split(','): always at least one piece
SplitComma(s) ==
    IF \E i \in 1..Len(s) : s[i] = ","
    THEN LET i == CHOOSE j \in 1..Len(s) :
                      s[j] = "," /\ \A k \in 1..(j - 1) : s[k] # ","
         IN  <<SubSeq(s, 1, i - 1)>> \o SplitComma(SubSeq(s, i + 1, Len(s)))
    ELSE <<s>>

IsDigits(s) == s # <<>> /\ \A i \in 1..Len(s) : s[i] \in Digits

DotPos(s) == IF \E i \in 1..Len(s) : s[i] = "."
             THEN CHOOSE i \in 1..Len(s) : s[i] = "." ELSE 0

\* the text parses as a number: digits, or digits '.' digits
IsNumericText(s) ==
    \/ IsDigits(s)
    \/ /\ DotPos(s) > 0
       /\ IsDigits(SubSeq(s, 1, DotPos(s) - 1))
       /\ IsDigits(SubSeq(s, DotPos(s) + 1, Len(s)))

RECURSIVE StripLeadingZeros(_)
StripLeadingZeros(s) ==
    IF Len(s) > 1 /\ Head(s) = "0" THEN StripLeadingZeros(Tail(s)) ELSE s

RECURSIVE StripTrailingZeros(_)
StripTrailingZeros(s) ==
    IF Len(s) > 1 /\ s[Len(s)] = "0"
    THEN StripTrailingZeros(SubSeq(s, 1, Len(s) - 1)) ELSE s

\* repr of float(s): '5' -> '5.0', '6.50' -> '6.5'
FloatText(s) ==
    IF DotPos(s) = 0
    THEN StripLeadingZeros(s) \o <<".", "0">>
    ELSE StripLeadingZeros(SubSeq(s, 1, DotPos(s) - 1)) \o <<".">>
         \o StripTrailingZeros(SubSeq(s, DotPos(s) + 1, Len(s)))

\* x = e followed by the statements F(x): the right-hand side of a Python
\* assignment is evaluated once, and the statements after it use the value
Bind(e, F(_)) == CHOOSE r \in {F(x) : x \in {e}} : TRUE

-----------------------------------------------------------------------------
(* Cell values of a DataFrame.  k is the Python type of the value, s its   *)
(* text, f and a the list a str(list) text prints (fields of a table       *)
(* definition, associated projects).                                       *)

NaN == [k |-> "nan", s |-> <<>>, f |-> <<>>, a |-> <<>>]

Str(s) == [k |-> "str", s |-> s, f |-> <<>>, a |-> <<>>]

Num(s) == [k |-> "num", s |-> FloatText(s), f |-> <<>>, a |-> <<>>]

Bool(b) == [k |-> "bool",
            s |-> IF b THEN <<"T","r","u","e">> ELSE <<"F","a","l","s","e">>,
            f |-> <<>>, a |-> <<>>]

ListText == <<"[", "]">>

\* str(fields): the text of a list of field dicts
FieldsStr(fields) == [k |-> "str", s |-> ListText, f |-> fields, a |-> <<>>]

\* str(associated_projects): the text of a list of project names
ProjectsStr(names) == [k |-> "str", s |-> ListText, f |-> <<>>, a |-> names]

NullTexts == { <<"n","a","n">>, <<"N","o","n","e">>, <<"N","a","N">>,
               <<"n","u","l","l">> }

-----------------------------------------------------------------------------
(* DataFrames: a set of columns and a sequence of rows, each row a         *)
(* function from the columns to cells.                                     *)

EmptyDF == [cols |-> {}, rows |-> <<>>]

\* DataFrame.empty
IsEmpty(df) == df.cols = {} \/ df.rows = <<>>

\* pd.DataFrame(list of dicts): union of the keys, NaN where a key is missing
FromRecords(recs) ==
    LET cs == UNION {DOMAIN recs[i] : i \in 1..Len(recs)}
    IN  [cols |-> cs,
         rows |-> [i \in 1..Len(recs) |->
                     [c \in cs |-> IF c \in DOMAIN recs[i] THEN recs[i][c] ELSE NaN]]]

\* pd.DataFrame(columns=[...])
FromColumns(cs) == [cols |-> cs, rows |-> <<>>]

\* pd.concat([a, b], ignore_index=True)
Concat(a, b) ==
    LET cs == a.cols \cup b.cols
        Widen(df) == [i \in 1..Len(df.rows) |->
                        [c \in cs |-> IF c \in df.cols THEN df.rows[i][c] ELSE NaN]]
    IN  [cols |-> cs, rows |-> Widen(a) \o Widen(b)]

\* df.drop(idx).reset_index(drop=True), idx counted from 0
DropRow(df, idx) ==
    [cols |-> df.cols,
     rows |-> SubSeq(df.rows, 1, idx) \o SubSeq(df.rows, idx + 2, Len(df.rows))]

\* df[name] = value
SetColumn(df, name, value) ==
    [cols |-> df.cols \cup {name},
     rows |-> [i \in 1..Len(df.rows) |->
                 [c \in df.cols \cup {name} |->
                     IF c = name THEN value ELSE df.rows[i][c]]]]

\* df.drop(columns=[name])
DropColumn(df, name) ==
    [cols |-> df.cols \ {name},
     rows |-> [i \in 1..Len(df.rows) |-> [c \in df.cols \ {name} |-> df.rows[i][c]]]]

\* the name read_excel gives the second of two columns that carry one name
MangledNames ==
    [Date |-> "Date.1", pH |-> "pH.1", Note |-> "Note.1", Depth |-> "Depth.1",
     Lime |-> "Lime.1", Acidity |-> "Acidity.1"]

Mangled(c) == IF c \in DOMAIN MangledNames THEN MangledNames[c] ELSE "Unnamed.1"

\* the names that two columns of the frame carry, after a rename
Dups(df) == IF "dup" \in DOMAIN df THEN df.dup ELSE {}

\* df.rename(columns={old: new}).  When another column is named new the
\* frame has two columns of that name: the one that stands first is kept
\* here under new, the one that stands last under Mangled(new).  old_last
\* tells that the renamed column stands after the other one (the frames of
\* the model do not hold the positions of their columns).
Rename(df, old, new, old_last) ==
    IF new \notin df.cols
    THEN [cols |-> (df.cols \ {old}) \cup {new},
          rows |-> [i \in 1..Len(df.rows) |->
                      [c \in (df.cols \ {old}) \cup {new} |->
                          IF c = new THEN df.rows[i][old] ELSE df.rows[i][c]]]]
    ELSE [cols |-> (df.cols \ {old}) \cup {Mangled(new)},
          rows |-> [i \in 1..Len(df.rows) |->
                      [c \in (df.cols \ {old}) \cup {Mangled(new)} |->
                          IF c = new
                          THEN df.rows[i][IF old_last THEN new ELSE old]
                          ELSE IF c = Mangled(new)
                          THEN df.rows[i][IF old_last THEN old ELSE new]
                          ELSE df.rows[i][c]]],
          dup |-> {new}]

-----------------------------------------------------------------------------
(* MongoDBManager: the storage backend.  mongo maps a collection name to   *)
(* its documents, files maps a local path to the sheet saved there.        *)

\* the falsy project name: None or ''
NoProject == <<>>

\* text of a cell after fillna(''), astype(str) and the replace of null texts
CleanText(cell) ==
    LET t == IF cell.k = "nan" THEN <<>> ELSE cell.s
    IN  IF t \in NullTexts THEN <<>> ELSE t

\* MongoDBManager._is_numeric_column, on the cleaned texts of one column
_is_numeric_column(df, c) ==
    LET texts == {CleanText(df.rows[i][c]) : i \in 1..Len(df.rows)}
    IN  /\ texts \ {<<>>} # {}
        /\ \A t \in texts \ {<<>>} : IsNumericText(t)
        /\ \A d \in Dups(df) : c \notin {d, Mangled(d)}

\* MongoDBManager._clean_dataframe_for_storage
_clean_dataframe_for_storage(df) ==
    [cols |-> df.cols,
     rows |-> [i \in 1..Len(df.rows) |->
        [c \in df.cols |->
            LET cell == df.rows[i][c]
                t == CleanText(cell)
            IN  IF _is_numeric_column(df, c)
                THEN Num(IF t = <<>> THEN <<"0">> ELSE t)
                ELSE [k |-> "str", s |-> t, f |-> cell.f, a |-> cell.a]]]]

\* MongoDBManager.get_collection: the formatted collection name
get_collection(project_name, collection_name) ==
    Lower(ReplaceSpace(IF project_name # NoProject
                       THEN project_name \o <<"_">> \o collection_name
                       ELSE collection_name))

\* MongoDBManager._get_local_file_path
_get_local_file_path(project_name, collection_name) ==
    [project |-> project_name, file |-> collection_name]

\* documents of a collection; a collection that was never written is empty
Documents(m, name) == IF name \in DOMAIN m THEN m[name] ELSE <<>>

\* pd.read_excel of a sheet written by to_excel(index=False): the header row
\* gives the columns, an empty cell is read as NaN
read_excel(sheet) ==
    IF sheet.cols = {} THEN EmptyDF
    ELSE [cols |-> sheet.cols,
          rows |-> [i \in 1..Len(sheet.rows) |->
                      [c \in sheet.cols |->
                          IF sheet.rows[i][c].k = "str" /\ sheet.rows[i][c].s = <<>>
                          THEN NaN ELSE sheet.rows[i][c]]]]

\* MongoDBManager.read_dataframe
read_dataframe(m, fl, project_name, collection_name) ==
    IF is_online
    THEN LET data == Documents(m, get_collection(project_name, collection_name))
         IN  IF data # <<>> THEN FromRecords(data) ELSE EmptyDF
    ELSE LET file_path == _get_local_file_path(project_name, collection_name)
         IN  IF file_path \in DOMAIN fl THEN read_excel(fl[file_path]) ELSE EmptyDF

\* collection.delete_many({}) followed by insert_many(records)
ReplaceDocuments(m, name, records) ==
    [n \in DOMAIN m \cup {name} |-> IF n = name THEN records ELSE m[n]]

\* MongoDBManager._save_to_local_file
_save_to_local_file(fl, project_name, collection_name, df) ==
    LET file_path == _get_local_file_path(project_name, collection_name)
    IN  [q \in DOMAIN fl \cup {file_path} |-> IF q = file_path THEN df ELSE fl[q]]

\* df_clean.to_dict('records'): of two columns with one name the dict of a
\* row keeps the value of the one that stands last
to_dict(df, dups) ==
    [i \in 1..Len(df.rows) |->
        [c \in df.cols \ {Mangled(d) : d \in dups} |->
            IF c \in dups THEN df.rows[i][Mangled(c)] ELSE df.rows[i][c]]]

\* MongoDBManager.write_dataframe: the collection is rewritten only when the
\* cleaned frame is not empty; the local file is always saved
write_dataframe(m, fl, project_name, collection_name, df) ==
    LET df_clean == _clean_dataframe_for_storage(df)
    IN  [ok |-> TRUE,
         mongo |-> IF is_online /\ ~IsEmpty(df_clean)
                   THEN ReplaceDocuments(m, get_collection(project_name, collection_name),
                                         to_dict(df_clean, Dups(df)))
                   ELSE m,
         files |-> _save_to_local_file(fl, project_name, collection_name, df_clean)]

-----------------------------------------------------------------------------
(* GoogleSheetsManager: the spreadsheet backend.  gsheets.spreadsheets     *)
(* maps the name of a spreadsheet to its worksheets, a worksheet being the *)
(* header and the rows written to it (nothing for a new or cleared one).   *)

\* GoogleSheetsManager.__init__ when connect finds no credentials
NotConnected == [connected |-> FALSE, spreadsheets |-> <<>>]

\* s begins with the text sub
StartsWith(s, sub) == Len(s) >= Len(sub) /\ SubSeq(s, 1, Len(sub)) = sub

\* sub in s
Contains(s, sub) ==
    \E i \in 1..(Len(s) - Len(sub) + 1) : SubSeq(s, i, i + Len(sub) - 1) = sub

RECURSIVE Remove(_, _)
\* s.replace(sub, '')
Remove(s, sub) ==
    IF s = <<>> THEN <<>>
    ELSE IF StartsWith(s, sub) THEN Remove(SubSeq(s, Len(sub) + 1, Len(s)), sub)
    ELSE <<Head(s)>> \o Remove(Tail(s), sub)

XlsxText == <<".","x","l","s","x">>

\* the spreadsheet name read_dataframe and write_dataframe use
SpreadsheetName(project_name) ==
    IF project_name # NoProject
    THEN <<"N","a","v","c","h","e","t","n","a","_","P","r","o","j","e","c","t","_">>
         \o project_name
    ELSE <<"N","a","v","c","h","e","t","n","a","_","M","a","s","t","e","r","_","D","a","t","a">>

\* the worksheet name read_dataframe and write_dataframe use
WorksheetName(file_name) == Remove(file_name, XlsxText)

\* a worksheet without values: a new one, or a cleared one
BlankSheet == EmptyDF

\* GoogleSheetsManager.get_or_create_spreadsheet and get_or_create_worksheet:
\* the spreadsheets with the worksheet, created when it is missing
get_or_create_worksheet(spreadsheets, name, sheet_name) ==
    [n \in DOMAIN spreadsheets \cup {name} |->
        IF n # name THEN spreadsheets[n]
        ELSE IF n \notin DOMAIN spreadsheets THEN (sheet_name :> BlankSheet)
        ELSE IF sheet_name \in DOMAIN spreadsheets[n] THEN spreadsheets[n]
        ELSE (sheet_name :> BlankSheet) @@ spreadsheets[n]]

\* GoogleSheetsManager._get_default_structure
gs_get_default_structure(file_name) ==
    IF Contains(file_name, <<"k","m","l","_","t","r","a","c","k","i","n","g">>)
    THEN FromColumns({"Date", "User", "KML_Count_Sent", "Total_Area",
                      "Area_Approved", "Approval_Date", "Status", "Remarks"})
    ELSE IF Contains(file_name, <<"p","l","a","n","t","a","t","i","o","n","_",
                                  "r","e","c","o","r","d","s">>)
    THEN FromColumns({"Date", "User", "Plot_Code", "Area_Planted",
                      "Farmer_Covered", "Trees_Planted", "Pits_Dug", "Status"})
    ELSE IF Contains(file_name, <<"u","s","e","r","s">>)
    THEN FromColumns({"username", "password_hash", "role", "accessible_projects",
                      "full_name", "email", "created_date", "last_login"})
    ELSE IF Contains(file_name, <<"p","r","o","j","e","c","t","s">>)
    THEN FromColumns({"project_name", "description", "client", "manager",
                      "start_date", "target_area", "target_trees", "status"})
    ELSE IF Contains(file_name, <<"c","u","s","t","o","m","_","t","a","b","l","e","s">>)
    THEN FromColumns({"table_name", "description", "fields", "created_date",
                      "table_type"})
    ELSE IF Contains(file_name, <<"s","c","h","e","m","a","_","e","x","t","e","n",
                                  "s","i","o","n","s">>)
    THEN FromColumns({"table_type", "field_name", "field_type", "default_value",
                      "is_required", "dropdown_options", "description"})
    ELSE EmptyDF

\* worksheet.get_all_records(): a cell that holds a number is read as one
get_all_records(sheet) ==
    [i \in 1..Len(sheet.rows) |->
        [c \in sheet.cols |->
            IF IsNumericText(CleanText(sheet.rows[i][c]))
            THEN Num(CleanText(sheet.rows[i][c]))
            ELSE Str(CleanText(sheet.rows[i][c]))]]

\* GoogleSheetsManager.read_dataframe: the frame, and the backend it leaves
gs_read_dataframe(gs, project_name, file_name) ==
    IF ~gs.connected THEN [df |-> EmptyDF, gsheets |-> gs]
    ELSE
    Bind(get_or_create_worksheet(gs.spreadsheets, SpreadsheetName(project_name),
                                 WorksheetName(file_name)), LAMBDA sp :
    Bind(get_all_records(sp[SpreadsheetName(project_name)][WorksheetName(file_name)]),
         LAMBDA data :
        [df |-> IF data # <<>> THEN FromRecords(data)
                ELSE gs_get_default_structure(file_name),
         gsheets |-> [gs EXCEPT !.spreadsheets = sp]]))

\* GoogleSheetsManager.write_dataframe: worksheet.clear(), then update with
\* the header and the values
gs_write_dataframe(gs, project_name, file_name, df) ==
    IF ~gs.connected THEN [ok |-> FALSE, gsheets |-> gs]
    ELSE
    Bind(get_or_create_worksheet(gs.spreadsheets, SpreadsheetName(project_name),
                                 WorksheetName(file_name)), LAMBDA sp :
        [ok |-> TRUE,
         gsheets |->
            [gs EXCEPT !.spreadsheets =
                [sp EXCEPT ![SpreadsheetName(project_name)] =
                    [@ EXCEPT ![WorksheetName(file_name)] =
                        [cols |-> df.cols, rows |-> df.rows]]]]])

-----------------------------------------------------------------------------
(* Python values read out of cells.                                        *)

\* cell == text, for a Python str on the right
CellEq(cell, text) == cell.k = "str" /\ cell.s = text

\* f"{value}" of a cell
PyText(cell) == IF cell.k = "nan" THEN <<"n","a","n">> ELSE cell.s

\* bool(value) of a cell: '' and 0.0 are falsy, NaN is truthy
Truthy(cell) ==
    CASE cell.k = "nan" -> TRUE
      [] cell.k = "num" -> cell.s # <<"0",".","0">>
      [] cell.k = "bool" -> cell.s = <<"T","r","u","e">>
      [] OTHER -> cell.s # <<>>

\* project['Project_Name'] as the backend uses it in names and paths
ProjectKey(cell) == IF Truthy(cell) THEN PyText(cell) ELSE NoProject

\* ast.literal_eval(fields_str) with the except branch: the list, or []
EvalFields(cell) == IF cell.k = "str" /\ cell.s = ListText THEN cell.f ELSE <<>>

\* ast.literal_eval(associated_projects_str), ["All"] when it raises
AllText == <<"A","l","l">>

EvalProjects(cell) ==
    IF cell.k = "str" /\ cell.s = ListText THEN cell.a ELSE <<AllText>>

InSeq(x, seq) == \E i \in 1..Len(seq) : seq[i] = x

\* [field['name'] for field in fields if field.get('name')]
FieldNames(fields) == {fields[i].name : i \in 1..Len(fields)} \ {""}

-----------------------------------------------------------------------------
(* TableManager.  Every operation takes the stored state (m: collections,  *)
(* fl: local files, cache: the session's tables_cache) and yields its      *)
(* return value and the state it leaves.                                   *)

TablesName == <<"t","a","b","l","e","s">>

ProjectsName == <<"p","r","o","j","e","c","t","s">>

UsersName == <<"u","s","e","r","s">>

NowText == <<"2","0","2","4","-","0","5","-","0","1">>

\* table_name.lower().replace(' ', '_')
CollectionName(table_name) == ReplaceSpace(Lower(table_name))

\* TableManager.clear_cache
clear_cache == [has_all |-> FALSE, fresh |-> FALSE, all_tables |-> EmptyDF]

Field(name, type, required, default) ==
    [name |-> name, type |-> type, required |-> required, default |-> default]

KMLTracking == <<"K","M","L"," ","T","r","a","c","k","i","n","g">>

PlantationRecords ==
    <<"P","l","a","n","t","a","t","i","o","n"," ","R","e","c","o","r","d","s">>

SystemText == <<"s","y","s","t","e","m">>

UserCreatedText == <<"u","s","e","r","-","c","r","e","a","t","e","d">>

PendingText == <<"P","e","n","d","i","n","g">>

InProgressText == <<"I","n"," ","P","r","o","g","r","e","s","s">>

\* the frame TableManager._create_default_tables builds
DefaultTables ==
    FromRecords(<<
      [table_name |-> Str(KMLTracking),
       description |-> Str(<<"K","M","L">>),
       fields |-> FieldsStr(<<
          Field("Date", "Date", TRUE, <<>>),
          Field("User", "Text", TRUE, <<>>),
          Field("KML_Count_Sent", "Number", TRUE, <<"0">>),
          Field("Total_Area", "Number", TRUE, <<"0">>),
          Field("Area_Approved", "Number", TRUE, <<"0">>),
          Field("Approval_Date", "Date", FALSE, <<>>),
          Field("Status", "Text", TRUE, PendingText),
          Field("Remarks", "Text", FALSE, <<>>) >>),
       created_date |-> Str(NowText),
       table_type |-> Str(SystemText)],
      [table_name |-> Str(PlantationRecords),
       description |-> Str(<<"P","R">>),
       fields |-> FieldsStr(<<
          Field("Date", "Date", TRUE, <<>>),
          Field("User", "Text", TRUE, <<>>),
          Field("Plot_Code", "Text", TRUE, <<>>),
          Field("Area_Planted", "Number", TRUE, <<"0">>),
          Field("Farmer_Covered", "Number", TRUE, <<"0">>),
          Field("Trees_Planted", "Number", TRUE, <<"0">>),
          Field("Pits_Dug", "Number", TRUE, <<"0">>),
          Field("Status", "Text", TRUE, InProgressText) >>),
       created_date |-> Str(NowText),
       table_type |-> Str(SystemText)] >>)

\* TableManager._create_default_tables
_create_default_tables(m, fl) ==
    Bind(write_dataframe(m, fl, NoProject, TablesName, DefaultTables), LAMBDA w :
        [df |-> DefaultTables, mongo |-> w.mongo, files |-> w.files])

\* TableManager.get_all_tables: the cached frame while the cache is less
\* than 30 seconds old, else the stored registry (the defaults when none)
get_all_tables(m, fl, cache) ==
    IF cache.has_all /\ cache.fresh
    THEN [df |-> cache.all_tables, mongo |-> m, files |-> fl, cache |-> cache]
    ELSE Bind(read_dataframe(m, fl, NoProject, TablesName), LAMBDA stored :
         Bind(IF IsEmpty(stored) THEN _create_default_tables(m, fl)
              ELSE [df |-> stored, mongo |-> m, files |-> fl], LAMBDA d :
            [df |-> d.df, mongo |-> d.mongo, files |-> d.files,
             cache |-> [has_all |-> TRUE, fresh |-> TRUE, all_tables |-> d.df]]))

\* TableManager.get_all_tables when the read of the registry fails: the
\* except branch of read_dataframe returns an empty frame, so the defaults
\* are created.  Their write reaches the collection when storage is back,
\* or raises too, and then write_dataframe saves the local file only.
get_all_tables_read_error(m, fl, cache, write_raises) ==
    IF cache.has_all /\ cache.fresh
    THEN [df |-> cache.all_tables, mongo |-> m, files |-> fl, cache |-> cache]
    ELSE Bind(IF write_raises
              THEN [df |-> DefaultTables, mongo |-> m,
                    files |-> _save_to_local_file(fl, NoProject, TablesName,
                                                  DefaultTables)]
              ELSE _create_default_tables(m, fl), LAMBDA d :
            [df |-> d.df, mongo |-> d.mongo, files |-> d.files,
             cache |-> [has_all |-> TRUE, fresh |-> TRUE, all_tables |-> d.df]])

\* positions (from 1) of the rows whose table_name is the given name
TableRows(tables_df, table_name) ==
    {i \in 1..Len(tables_df.rows) : CellEq(tables_df.rows[i]["table_name"], table_name)}

FirstOf(S) == CHOOSE i \in S : \A j \in S : i <= j

\* TableManager.get_table_schema
get_table_schema(m, fl, cache, table_name) ==
    Bind(get_all_tables(m, fl, cache), LAMBDA g :
    Bind(IF IsEmpty(g.df) THEN {} ELSE TableRows(g.df, table_name), LAMBDA found :
        IF found = {} THEN <<>>
        ELSE EvalFields(g.df.rows[FirstOf(found)]["fields"])))

\* TableManager.get_table_data
get_table_data(m, fl, project_name, table_name) ==
    read_dataframe(m, fl, project_name, CollectionName(table_name))

add_record_overwrites(m, fl, project_name, table_name, record_data) ==
    write_dataframe(m, fl, project_name, CollectionName(table_name),
                    FromRecords(<<record_data>>))

\* TableManager.add_record
add_record(m, fl, project_name, table_name, record_data) ==
    LET collection_name == CollectionName(table_name)
        existing_data == read_dataframe(m, fl, project_name, collection_name)
        new_record == FromRecords(<<record_data>>)
        updated_data == IF IsEmpty(existing_data) THEN new_record
                        ELSE Concat(existing_data, new_record)
    IN  write_dataframe(m, fl, project_name, collection_name, updated_data)

Patch_adds_columns(df, record_idx, updated_data) ==
    [cols |-> df.cols \cup DOMAIN updated_data,
     rows |-> [i \in 1..Len(df.rows) |->
                 [c \in df.cols \cup DOMAIN updated_data |->
                     IF i = record_idx + 1 /\ c \in DOMAIN updated_data
                     THEN updated_data[c]
                     ELSE IF c \in df.cols THEN df.rows[i][c] ELSE NaN]]]

\* the loop of update_record: set the patch fields that are columns
Patch(df, record_idx, updated_data) ==
    [cols |-> df.cols,
     rows |-> [i \in 1..Len(df.rows) |->
                 [c \in df.cols |->
                     IF i = record_idx + 1 /\ c \in DOMAIN updated_data
                     THEN updated_data[c] ELSE df.rows[i][c]]]]

\* TableManager.update_record
update_record(m, fl, project_name, table_name, record_idx, updated_data) ==
    LET collection_name == CollectionName(table_name)
        existing_data == read_dataframe(m, fl, project_name, collection_name)
    IN  IF IsEmpty(existing_data) \/ record_idx >= Len(existing_data.rows)
        THEN [ok |-> FALSE, mongo |-> m, files |-> fl]
        ELSE write_dataframe(m, fl, project_name, collection_name,
                             Patch(existing_data, record_idx, updated_data))

\* TableManager.delete_record
delete_record(m, fl, project_name, table_name, record_idx) ==
    LET collection_name == CollectionName(table_name)
        existing_data == read_dataframe(m, fl, project_name, collection_name)
    IN  IF IsEmpty(existing_data) \/ record_idx >= Len(existing_data.rows)
        THEN [ok |-> FALSE, mongo |-> m, files |-> fl]
        ELSE write_dataframe(m, fl, project_name, collection_name,
                             DropRow(existing_data, record_idx))

\* add_record from the concat on: existing_data is the row-set the call read
add_record_write(m, fl, project_name, table_name, record_data, existing_data) ==
    LET new_record == FromRecords(<<record_data>>)
        updated_data == IF IsEmpty(existing_data) THEN new_record
                        ELSE Concat(existing_data, new_record)
    IN  write_dataframe(m, fl, project_name, CollectionName(table_name), updated_data)

\* update_record from the range test on
update_record_write(m, fl, project_name, table_name, record_idx, updated_data, existing_data) ==
    IF IsEmpty(existing_data) \/ record_idx >= Len(existing_data.rows)
    THEN [ok |-> FALSE, mongo |-> m, files |-> fl]
    ELSE write_dataframe(m, fl, project_name, CollectionName(table_name),
                         Patch(existing_data, record_idx, updated_data))

delete_record_write_unchecked(m, fl, project_name, table_name, record_idx, existing_data) ==
    IF IsEmpty(existing_data) \/ record_idx > Len(existing_data.rows)
    THEN [ok |-> FALSE, mongo |-> m, files |-> fl]
    ELSE write_dataframe(m, fl, project_name, CollectionName(table_name),
                         DropRow(existing_data, record_idx))

\* delete_record from the range test on
delete_record_write(m, fl, project_name, table_name, record_idx, existing_data) ==
    IF IsEmpty(existing_data) \/ record_idx >= Len(existing_data.rows)
    THEN [ok |-> FALSE, mongo |-> m, files |-> fl]
    ELSE write_dataframe(m, fl, project_name, CollectionName(table_name),
                         DropRow(existing_data, record_idx))

-----------------------------------------------------------------------------
(* TableManager: the registry and schema evolution.                        *)

St(ok, m, fl, cache) == [ok |-> ok, mongo |-> m, files |-> fl, cache |-> cache]

\* project_name in associated_projects, for the cell of a projects row
NameIn(cell, names) == cell.k = "str" /\ InSeq(cell.s, names)

RECURSIVE ProvisionProjects(_, _, _, _, _, _, _)
\* the loop of create_table over the projects row-set, from row i on
ProvisionProjects(m, fl, projects_df, i, table_name, fields, associated_projects) ==
    IF i > Len(projects_df.rows) THEN [mongo |-> m, files |-> fl]
    ELSE LET project == projects_df.rows[i]["Project_Name"]
             columns == FieldNames(fields)
         IN  IF /\ InSeq(AllText, associated_projects)
                    \/ NameIn(project, associated_projects)
                /\ columns # {}
             THEN Bind(write_dataframe(m, fl, ProjectKey(project),
                                       CollectionName(table_name),
                                       FromColumns(columns)), LAMBDA w :
                    ProvisionProjects(w.mongo, w.files, projects_df, i + 1,
                                      table_name, fields, associated_projects))
             ELSE ProvisionProjects(m, fl, projects_df, i + 1,
                                    table_name, fields, associated_projects)

\* the registry row create_table builds
NewTable(table_name, description, fields, associated_projects) ==
    FromRecords(<<
        [table_name |-> Str(table_name),
         description |-> Str(description),
         fields |-> FieldsStr(fields),
         created_date |-> Str(NowText),
         table_type |-> Str(UserCreatedText),
         associated_projects |-> ProjectsStr(associated_projects)] >>)

\* TableManager.create_table
create_table(m, fl, cache, table_name, description, fields, associated_projects) ==
    Bind(get_all_tables(m, fl, clear_cache), LAMBDA g :
      IF ~IsEmpty(g.df) /\ TableRows(g.df, table_name) # {}
      THEN St(FALSE, g.mongo, g.files, g.cache)
      ELSE
      Bind(NewTable(table_name, description, fields, associated_projects),
           LAMBDA new_table :
      Bind(IF IsEmpty(g.df) THEN new_table ELSE Concat(g.df, new_table),
           LAMBDA updated_tables :
      Bind(write_dataframe(g.mongo, g.files, NoProject, TablesName, updated_tables),
           LAMBDA w :
      Bind(read_dataframe(w.mongo, w.files, NoProject, ProjectsName),
           LAMBDA projects_df :
      Bind(IF IsEmpty(projects_df) THEN [mongo |-> w.mongo, files |-> w.files]
           ELSE ProvisionProjects(w.mongo, w.files, projects_df, 1,
                                  table_name, fields, associated_projects),
           LAMBDA p :
        St(w.ok, p.mongo, p.files,
           [has_all |-> TRUE, fresh |-> FALSE, all_tables |-> updated_tables])))))))

\* tables_df.iloc[idx, fields] = str(fields), idx counted from 1 here
SetFields(tables_df, idx, fields) ==
    [cols |-> tables_df.cols,
     rows |-> [i \in 1..Len(tables_df.rows) |->
                 [c \in tables_df.cols |->
                     IF i = idx /\ c = "fields" THEN FieldsStr(fields)
                     ELSE tables_df.rows[i][c]]]]

\* float(default_value) raises ValueError
FloatRaises(field_config) ==
    /\ field_config.type = "Number"
    /\ field_config.default # <<>>
    /\ ~IsNumericText(field_config.default)

\* the default value add_field_to_table puts in the new column
TypedDefault(field_config) ==
    CASE field_config.type = "Number" ->
            IF field_config.default # <<>> THEN Num(field_config.default)
            ELSE Num(<<"0">>)
      [] field_config.type = "True/False" ->
            IF field_config.default # <<>>
            THEN Bool(Lower(field_config.default) = <<"t","r","u","e">>)
            ELSE Bool(FALSE)
      [] OTHER -> Str(field_config.default)

RECURSIVE AddFieldToProjects(_, _, _, _, _, _)
\* the loop of add_field_to_table over the projects row-set, from row i on;
\* ok is FALSE when float(default_value) raised and ended the call
AddFieldToProjects(m, fl, projects_df, i, collection_name, field_config) ==
    IF i > Len(projects_df.rows) THEN [ok |-> TRUE, mongo |-> m, files |-> fl]
    ELSE
    Bind(ProjectKey(projects_df.rows[i]["Project_Name"]), LAMBDA project_name :
    Bind(read_dataframe(m, fl, project_name, collection_name), LAMBDA table_data :
      IF ~IsEmpty(table_data) /\ field_config.name \notin table_data.cols
      THEN IF FloatRaises(field_config)
           THEN [ok |-> FALSE, mongo |-> m, files |-> fl]
           ELSE Bind(write_dataframe(m, fl, project_name, collection_name,
                        SetColumn(table_data, field_config.name,
                                  TypedDefault(field_config))), LAMBDA w :
                  AddFieldToProjects(w.mongo, w.files, projects_df, i + 1,
                                     collection_name, field_config))
      ELSE AddFieldToProjects(m, fl, projects_df, i + 1,
                              collection_name, field_config)))

add_field_to_table_unchecked(m, fl, cache, table_name, field_config) ==
    Bind(get_all_tables(m, fl, cache), LAMBDA g :
    Bind(IF IsEmpty(g.df) THEN {} ELSE TableRows(g.df, table_name), LAMBDA found :
      IF found = {} THEN St(FALSE, g.mongo, g.files, g.cache)
      ELSE
      Bind(FirstOf(found), LAMBDA idx :
      Bind(EvalFields(g.df.rows[idx]["fields"]), LAMBDA current_fields :
        Bind(SetFields(g.df, idx, Append(current_fields, field_config)),
             LAMBDA tables_df :
        Bind(write_dataframe(g.mongo, g.files, NoProject, TablesName, tables_df),
             LAMBDA w :
        Bind(read_dataframe(w.mongo, w.files, NoProject, ProjectsName),
             LAMBDA projects_df :
        Bind(IF IsEmpty(projects_df)
             THEN [ok |-> TRUE, mongo |-> w.mongo, files |-> w.files]
             ELSE AddFieldToProjects(w.mongo, w.files, projects_df, 1,
                                     CollectionName(table_name), field_config),
             LAMBDA p :
          St(w.ok /\ p.ok, p.mongo, p.files,
             [g.cache EXCEPT !.all_tables = tables_df])))))))))

add_field_to_table_late_check(m, fl, cache, table_name, field_config) ==
    Bind(get_all_tables(m, fl, cache), LAMBDA g :
    Bind(IF IsEmpty(g.df) THEN {} ELSE TableRows(g.df, table_name), LAMBDA found :
      IF found = {} THEN St(FALSE, g.mongo, g.files, g.cache)
      ELSE
      Bind(FirstOf(found), LAMBDA idx :
      Bind(EvalFields(g.df.rows[idx]["fields"]), LAMBDA current_fields :
        Bind(SetFields(g.df, idx, Append(current_fields, field_config)),
             LAMBDA tables_df :
        Bind(write_dataframe(g.mongo, g.files, NoProject, TablesName, tables_df),
             LAMBDA w :
        IF field_config.name \in FieldNames(current_fields)
        THEN St(FALSE, w.mongo, w.files, [g.cache EXCEPT !.all_tables = tables_df])
        ELSE
        Bind(read_dataframe(w.mongo, w.files, NoProject, ProjectsName),
             LAMBDA projects_df :
        Bind(IF IsEmpty(projects_df)
             THEN [ok |-> TRUE, mongo |-> w.mongo, files |-> w.files]
             ELSE AddFieldToProjects(w.mongo, w.files, projects_df, 1,
                                     CollectionName(table_name), field_config),
             LAMBDA p :
          St(w.ok /\ p.ok, p.mongo, p.files,
             [g.cache EXCEPT !.all_tables = tables_df])))))))))

\* TableManager.add_field_to_table.  The frame get_all_tables returns is the
\* cached object, so the assignment of the new fields text changes the cache.
add_field_to_table(m, fl, cache, table_name, field_config) ==
    Bind(get_all_tables(m, fl, cache), LAMBDA g :
    Bind(IF IsEmpty(g.df) THEN {} ELSE TableRows(g.df, table_name), LAMBDA found :
      IF found = {} THEN St(FALSE, g.mongo, g.files, g.cache)
      ELSE
      Bind(FirstOf(found), LAMBDA idx :
      Bind(EvalFields(g.df.rows[idx]["fields"]), LAMBDA current_fields :
        IF field_config.name \in FieldNames(current_fields)
        THEN St(FALSE, g.mongo, g.files, g.cache)
        ELSE
        Bind(SetFields(g.df, idx, Append(current_fields, field_config)),
             LAMBDA tables_df :
        Bind(write_dataframe(g.mongo, g.files, NoProject, TablesName, tables_df),
             LAMBDA w :
        Bind(read_dataframe(w.mongo, w.files, NoProject, ProjectsName),
             LAMBDA projects_df :
        Bind(IF IsEmpty(projects_df)
             THEN [ok |-> TRUE, mongo |-> w.mongo, files |-> w.files]
             ELSE AddFieldToProjects(w.mongo, w.files, projects_df, 1,
                                     CollectionName(table_name), field_config),
             LAMBDA p :
          St(w.ok /\ p.ok, p.mongo, p.files,
             [g.cache EXCEPT !.all_tables = tables_df])))))))))

\* the loop of edit_field_in_table over current_fields: the first field
\* named old_field_name is replaced
RECURSIVE ReplaceField(_, _, _)
ReplaceField(fields, old_field_name, new_field_config) ==
    IF fields = <<>> THEN <<>>
    ELSE IF Head(fields).name = old_field_name
    THEN <<new_field_config>> \o Tail(fields)
    ELSE <<Head(fields)>> \o ReplaceField(Tail(fields), old_field_name, new_field_config)

RECURSIVE RenameInProjects(_, _, _, _, _, _, _, _)
\* the loop of edit_field_in_table over the projects row-set, from row i on
RenameInProjects(m, fl, projects_df, i, collection_name, old_field_name, new_name, old_last) ==
    IF i > Len(projects_df.rows) THEN [mongo |-> m, files |-> fl]
    ELSE
    Bind(ProjectKey(projects_df.rows[i]["Project_Name"]), LAMBDA project_name :
    Bind(read_dataframe(m, fl, project_name, collection_name), LAMBDA table_data :
      IF ~IsEmpty(table_data) /\ old_field_name \in table_data.cols
      THEN Bind(write_dataframe(m, fl, project_name, collection_name,
                                Rename(table_data, old_field_name, new_name,
                                       old_last)), LAMBDA w :
             RenameInProjects(w.mongo, w.files, projects_df, i + 1,
                              collection_name, old_field_name, new_name, old_last))
      ELSE RenameInProjects(m, fl, projects_df, i + 1,
                            collection_name, old_field_name, new_name, old_last)))

\* TableManager.edit_field_in_table
edit_field_in_table(m, fl, cache, table_name, old_field_name, new_field_config, old_last) ==
    Bind(get_all_tables(m, fl, cache), LAMBDA g :
    Bind(IF IsEmpty(g.df) THEN {} ELSE TableRows(g.df, table_name), LAMBDA found :
      IF found = {} THEN St(FALSE, g.mongo, g.files, g.cache)
      ELSE
      Bind(FirstOf(found), LAMBDA idx :
      Bind(EvalFields(g.df.rows[idx]["fields"]), LAMBDA current_fields :
        IF \A k \in 1..Len(current_fields) : current_fields[k].name # old_field_name
        THEN St(FALSE, g.mongo, g.files, g.cache)
        ELSE
        Bind(SetFields(g.df, idx,
                       ReplaceField(current_fields, old_field_name, new_field_config)),
             LAMBDA tables_df :
        Bind(write_dataframe(g.mongo, g.files, NoProject, TablesName, tables_df),
             LAMBDA w :
        Bind(read_dataframe(w.mongo, w.files, NoProject, ProjectsName),
             LAMBDA projects_df :
        Bind(IF old_field_name = new_field_config.name \/ IsEmpty(projects_df)
             THEN [mongo |-> w.mongo, files |-> w.files]
             ELSE RenameInProjects(w.mongo, w.files, projects_df, 1,
                                   CollectionName(table_name), old_field_name,
                                   new_field_config.name, old_last),
             LAMBDA p :
          St(w.ok, p.mongo, p.files,
             [g.cache EXCEPT !.all_tables = tables_df])))))))))

\* [f for f in current_fields if f.get('name') != field_name]
RECURSIVE WithoutField(_, _)
WithoutField(fields, field_name) ==
    IF fields = <<>> THEN <<>>
    ELSE IF Head(fields).name = field_name THEN WithoutField(Tail(fields), field_name)
    ELSE <<Head(fields)>> \o WithoutField(Tail(fields), field_name)

RECURSIVE DropFieldFromProjects(_, _, _, _, _, _)
\* the loop of delete_field_from_table over the projects row-set
DropFieldFromProjects(m, fl, projects_df, i, collection_name, field_name) ==
    IF i > Len(projects_df.rows) THEN [mongo |-> m, files |-> fl]
    ELSE
    Bind(ProjectKey(projects_df.rows[i]["Project_Name"]), LAMBDA project_name :
    Bind(read_dataframe(m, fl, project_name, collection_name), LAMBDA table_data :
      IF ~IsEmpty(table_data) /\ field_name \in table_data.cols
      THEN Bind(write_dataframe(m, fl, project_name, collection_name,
                                DropColumn(table_data, field_name)), LAMBDA w :
             DropFieldFromProjects(w.mongo, w.files, projects_df, i + 1,
                                   collection_name, field_name))
      ELSE DropFieldFromProjects(m, fl, projects_df, i + 1,
                                 collection_name, field_name)))

\* TableManager.delete_field_from_table
delete_field_from_table(m, fl, cache, table_name, field_name) ==
    Bind(get_all_tables(m, fl, cache), LAMBDA g :
    Bind(IF IsEmpty(g.df) THEN {} ELSE TableRows(g.df, table_name), LAMBDA found :
      IF found = {} THEN St(FALSE, g.mongo, g.files, g.cache)
      ELSE
      Bind(FirstOf(found), LAMBDA idx :
      Bind(EvalFields(g.df.rows[idx]["fields"]), LAMBDA current_fields :
      Bind(WithoutField(current_fields, field_name), LAMBDA updated_fields :
        IF Len(updated_fields) = Len(current_fields)
        THEN St(FALSE, g.mongo, g.files, g.cache)
        ELSE
        Bind(SetFields(g.df, idx, updated_fields), LAMBDA tables_df :
        Bind(write_dataframe(g.mongo, g.files, NoProject, TablesName, tables_df),
             LAMBDA w :
        Bind(read_dataframe(w.mongo, w.files, NoProject, ProjectsName),
             LAMBDA projects_df :
        Bind(IF IsEmpty(projects_df) THEN [mongo |-> w.mongo, files |-> w.files]
             ELSE DropFieldFromProjects(w.mongo, w.files, projects_df, 1,
                                        CollectionName(table_name), field_name),
             LAMBDA p :
          St(w.ok, p.mongo, p.files,
             [g.cache EXCEPT !.all_tables = tables_df]))))))))))

-----------------------------------------------------------------------------
(* Projects.                                                               *)

RECURSIVE InitializeTables(_, _, _, _, _)
\* the loop of initialize_project_tables over the registry rows, from row i
\* on; ok is FALSE when table_name.lower() raised on a value that is no str
InitializeTables(m, fl, tables_df, i, project_name) ==
    IF i > Len(tables_df.rows) THEN [ok |-> TRUE, mongo |-> m, files |-> fl]
    ELSE
    Bind(tables_df.rows[i]["table_name"], LAMBDA table_name :
      IF table_name.k # "str" THEN [ok |-> FALSE, mongo |-> m, files |-> fl]
      ELSE
      Bind(CollectionName(table_name.s), LAMBDA collection_name :
      Bind(read_dataframe(m, fl, project_name, collection_name),
           LAMBDA existing_data :
      Bind(TableRows(tables_df, table_name.s), LAMBDA found :
      Bind(IF found = {} THEN <<>>
           ELSE EvalFields(tables_df.rows[FirstOf(found)]["fields"]), LAMBDA schema :
      Bind(FieldNames(schema), LAMBDA columns :
        IF IsEmpty(existing_data) /\ columns # {}
        THEN Bind(write_dataframe(m, fl, project_name, collection_name,
                                  FromColumns(columns)), LAMBDA w :
               InitializeTables(w.mongo, w.files, tables_df, i + 1, project_name))
        ELSE InitializeTables(m, fl, tables_df, i + 1, project_name)))))))

\* TableManager.initialize_project_tables
initialize_project_tables(m, fl, cache, project_name) ==
    Bind(get_all_tables(m, fl, cache), LAMBDA g :
    Bind(InitializeTables(g.mongo, g.files, g.df, 1, project_name), LAMBDA r :
        St(r.ok, r.mongo, r.files, g.cache)))

\* positions of the projects rows with the given Project_Name
ProjectRows(projects_df, name) ==
    {i \in 1..Len(projects_df.rows) : CellEq(projects_df.rows[i]["Project_Name"], name)}

\* create_project of main_mongodb_admin.py
create_project(m, fl, cache, project_data) ==
    Bind(read_dataframe(m, fl, NoProject, ProjectsName), LAMBDA projects_df :
      IF ~IsEmpty(projects_df)
         /\ ProjectRows(projects_df, project_data["Project_Name"].s) # {}
      THEN St(FALSE, m, fl, cache)
      ELSE
      Bind(IF IsEmpty(projects_df) THEN FromRecords(<<project_data>>)
           ELSE Concat(projects_df, FromRecords(<<project_data>>)), LAMBDA updated :
      Bind(write_dataframe(m, fl, NoProject, ProjectsName, updated), LAMBDA w :
      Bind(initialize_project_tables(w.mongo, w.files, cache,
                                     project_data["Project_Name"].s), LAMBDA t :
        St(TRUE, t.mongo, t.files, t.cache)))))

\* MongoDBManager.create_project: the same name test, no table initialisation
mongo_create_project(m, fl, cache, project_data) ==
    Bind(read_dataframe(m, fl, NoProject, ProjectsName), LAMBDA projects_df :
      IF ~IsEmpty(projects_df)
         /\ ProjectRows(projects_df, project_data["Project_Name"].s) # {}
      THEN St(FALSE, m, fl, cache)
      ELSE
      Bind(IF IsEmpty(projects_df) THEN FromRecords(<<project_data>>)
           ELSE Concat(projects_df, FromRecords(<<project_data>>)), LAMBDA updated :
      Bind(write_dataframe(m, fl, NoProject, ProjectsName, updated), LAMBDA w :
        St(w.ok, w.mongo, w.files, cache))))

\* positions of the projects rows with the given Project_ID
ProjectIdRows(projects_df, project_id) ==
    {i \in 1..Len(projects_df.rows) : CellEq(projects_df.rows[i]["Project_ID"], project_id)}

\* the "Add New Project" form of show_project_management in main_mongodb.py:
\* only the Project_ID is looked up among the stored projects
show_project_management(m, fl, cache, project_id, project_name) ==
    Bind(read_dataframe(m, fl, NoProject, ProjectsName), LAMBDA projects_df :
      IF project_id = <<>> \/ project_name = <<>> THEN St(FALSE, m, fl, cache)
      ELSE IF ~IsEmpty(projects_df) /\ ProjectIdRows(projects_df, project_id) # {}
      THEN St(FALSE, m, fl, cache)
      ELSE
      Bind(FromRecords(<<[Project_ID |-> Str(project_id),
                          Project_Name |-> Str(project_name)]>>), LAMBDA new_project :
      Bind(IF IsEmpty(projects_df) THEN new_project
           ELSE Concat(projects_df, new_project), LAMBDA updated_projects :
      Bind(write_dataframe(m, fl, NoProject, ProjectsName, updated_projects), LAMBDA w :
        IF ~w.ok THEN St(FALSE, w.mongo, w.files, cache)
        ELSE
        Bind(initialize_project_tables(w.mongo, w.files, cache, project_name), LAMBDA t :
          St(TRUE, t.mongo, t.files, t.cache))))))

-----------------------------------------------------------------------------
(* Authentication.  st.session_state is a dict from keys to values; each   *)
(* application runs in a browser session of its own.                       *)

PyNone == [k |-> "none", s |-> <<>>, f |-> <<>>, a |-> <<>>]

\* session_state.get(key, default)
Get(d, key, default) == IF key \in DOMAIN d THEN d[key] ELSE default

\* session_state[key] = value
Put(d, key, value) == (key :> value) @@ d

\* del session_state[key] for the keys that are present
Del(d, keys) == [key \in DOMAIN d \ keys |-> d[key]]

\* hashlib.sha256(text).hexdigest(): one digest per text
Sha256(text) == <<"#">> \o text

Salt == <<"n","a","v","c","h","e","t","n","a","_","s","a","l","t">>

\* MongoDBManager.hash_password
hash_password(password) == Sha256(password \o Salt)

\* AuthManager._hash_password of utils/auth_manager.py
_hash_password(password) == Sha256(password)

UsersFile == [project |-> NoProject, file |-> <<"u","s","e","r","s",".","x","l","s","x">>]

\* SharePointManager._get_default_structure for the users file
_get_default_structure ==
    FromColumns({"Username", "Password_Hash", "Role", "Full_Name", "Email",
                 "Accessible_Projects", "Last_Login"})

\* SharePointManager.read_excel_file(None, 'users.xlsx') in local mode: the
\* copy kept in the session, else the file, else the default structure
read_excel_file(ss, fl) ==
    IF "data_master_users" \in DOMAIN ss THEN ss["data_master_users"]
    ELSE IF UsersFile \in DOMAIN fl THEN read_excel(fl[UsersFile])
    ELSE _get_default_structure

\* SharePointManager.write_excel_file(None, 'users.xlsx', data) in local mode
write_excel_file(ss, fl, data) ==
    [ok |-> TRUE, session |-> Put(ss, "data_master_users", data),
     files |-> (UsersFile :> data) @@ fl]

UserRecord(user_id, username, full_name, hash, role, projects, email, status) ==
    [User_ID |-> Str(user_id), Username |-> Str(username),
     Full_Name |-> Str(full_name), Password_Hash |-> Str(hash),
     Role |-> Str(role), Assigned_Projects |-> Str(projects),
     Email |-> Str(email), Status |-> Str(status), Created_Date |-> Str(NowText)]

ActiveText == <<"A","c","t","i","v","e">>

InactiveText == <<"I","n","a","c","t","i","v","e">>

ViewerName == <<"v","i","e","w","e","r">>

AdminText == <<"a","d","m","i","n">>

Manager1 == <<"m","a","n","a","g","e","r","1">>

\* the users AuthManager.initialize_default_users writes
default_users ==
    FromRecords(<<
      UserRecord(<<"a","d","m","i","n","0","0","1">>, AdminText, <<"S","y","s","t","e","m"," ","A","d","m","i","n","i","s","t","r","a","t","o","r">>,
                 _hash_password(<<"a","d","m","i","n","1","2","3">>), AdminText, AllText,
                 <<"a","d","m","i","n","@","n","a","v","c","h","e","t","n","a",".","c","o","m">>, ActiveText),
      UserRecord(<<"p","m","0","0","1">>, Manager1, <<"P","r","o","j","e","c","t"," ","M","a","n","a","g","e","r"," ","1">>,
                 _hash_password(<<"m","a","n","a","g","e","r","1","2","3">>), <<"p","r","o","j","e","c","t","_","m","a","n","a","g","e","r">>, <<"M","a","k","e","M","y","T","r","i","p">>,
                 <<"m","a","n","a","g","e","r","1","@","n","a","v","c","h","e","t","n","a",".","c","o","m">>, ActiveText),
      UserRecord(<<"p","m","0","0","2">>, <<"m","a","n","a","g","e","r","2">>, <<"P","r","o","j","e","c","t"," ","M","a","n","a","g","e","r"," ","2">>,
                 _hash_password(<<"m","a","n","a","g","e","r","1","2","3">>), <<"p","r","o","j","e","c","t","_","m","a","n","a","g","e","r">>, <<"A","b","s","o","l","u","t","e">>,
                 <<"m","a","n","a","g","e","r","2","@","n","a","v","c","h","e","t","n","a",".","c","o","m">>, ActiveText),
      UserRecord(<<"v","i","e","w","e","r","0","0","1">>, <<"v","i","e","w","e","r">>, <<"D","a","t","a"," ","V","i","e","w","e","r">>,
                 _hash_password(<<"v","i","e","w","e","r","1","2","3">>), <<"v","i","e","w","e","r">>, <<"M","a","k","e","M","y","T","r","i","p",",","A","b","s","o","l","u","t","e">>,
                 <<"v","i","e","w","e","r","@","n","a","v","c","h","e","t","n","a",".","c","o","m">>, ActiveText) >>)

\* AuthManager.initialize_default_users of utils/auth_manager.py
initialize_default_users(ss, fl) ==
    IF IsEmpty(read_excel_file(ss, fl))
    THEN write_excel_file(ss, fl, default_users)
    ELSE [ok |-> TRUE, session |-> ss, files |-> fl]

\* the result of an authentication call
Au(ok, raised, ss, m, fl) ==
    [ok |-> ok, raised |-> raised, session |-> ss, mongo |-> m, files |-> fl]

\* positions of the rows of users_df whose column col holds the text
UserRows(users_df, col, text) ==
    {i \in 1..Len(users_df.rows) : CellEq(users_df.rows[i][col], text)}

\* AuthManager.authenticate_user of utils/auth_manager.py; an exception
\* (a column that is missing) is caught and False returned
authenticate_user(ss, fl, username, password) ==
    LET first == read_excel_file(ss, fl)
        d == IF IsEmpty(first) THEN initialize_default_users(ss, fl)
             ELSE [ok |-> TRUE, session |-> ss, files |-> fl]
        users_df == read_excel_file(d.session, d.files)
        user_row == UserRows(users_df, "Username", username)
        user_data == users_df.rows[FirstOf(user_row)]
        current_user == [k |-> "dict", s |-> <<>>, f |-> <<>>, a |-> <<>>,
                         d |-> [username |-> user_data["Username"],
                                full_name |-> user_data["Full_Name"],
                                role |-> user_data["Role"],
                                assigned_projects |-> user_data["Assigned_Projects"],
                                user_id |-> user_data["User_ID"],
                                email |-> user_data["Email"]]]
        logged == Put(Put(Put(Put(Put(Put(Put(d.session,
                    "authenticated", Bool(TRUE)),
                    "username", user_data["Username"]),
                    "full_name", user_data["Full_Name"]),
                    "role", user_data["Role"]),
                    "assigned_projects", user_data["Assigned_Projects"]),
                    "user_id", user_data["User_ID"]),
                    "current_user", current_user)
        no == Au(FALSE, FALSE, d.session, <<>>, d.files)
    IN  IF "Username" \notin users_df.cols THEN no
        ELSE IF user_row = {} THEN no
        ELSE IF "Password_Hash" \notin users_df.cols THEN no
        ELSE IF ~CellEq(user_data["Password_Hash"], _hash_password(password)) THEN no
        ELSE IF "Status" \notin users_df.cols THEN no
        ELSE IF ~CellEq(user_data["Status"], ActiveText) THEN no
        ELSE IF {"Full_Name", "Role", "Assigned_Projects", "User_ID", "Email"}
                   \subseteq users_df.cols
        THEN Au(TRUE, FALSE, logged, <<>>, d.files)
        ELSE no

\* AuthManager.logout of utils/auth_manager.py
logout(ss) ==
    Del(ss, {"authenticated", "username", "full_name", "role",
             "assigned_projects", "user_id"})

\* AuthManager.is_authenticated
is_authenticated(ss) == Get(ss, "authenticated", Bool(FALSE)) = Bool(TRUE)

\* AuthManager.has_role
has_role(ss, required_role) ==
    /\ is_authenticated(ss)
    /\ \/ CellEq(Get(ss, "role", Str(<<>>)), AdminText)
       \/ CellEq(Get(ss, "role", Str(<<>>)), required_role)

\* AuthManager.update_user of utils/auth_manager.py
update_user(ss, fl, user_id, user_data) ==
    LET users_df == read_excel_file(ss, fl)
        user_index == UserRows(users_df, "User_ID", user_id)
        no == [ok |-> FALSE, session |-> ss, files |-> fl]
    IN  IF ~has_role(ss, AdminText) THEN no
        ELSE IF "User_ID" \notin users_df.cols THEN no
        ELSE IF user_index = {} THEN no
        ELSE write_excel_file(ss, fl,
                Patch(users_df, FirstOf(user_index) - 1, user_data))

\* most accounts the users file holds
MaxUsers == 5

\* f"USR{str(n).zfill(3)}" for n below ten
UserId(n) ==
    <<"U","S","R","0","0">> \o <<(<<"1","2","3","4","5","6","7","8","9">>)[n]>>

RECURSIVE JoinComma(_)
\* ','.join(names)
JoinComma(names) ==
    IF names = <<>> THEN <<>>
    ELSE IF Len(names) = 1 THEN names[1]
    ELSE names[1] \o <<",">> \o JoinComma(Tail(names))

\* create_user of main.py, the form of the User Management page
create_user(ss, fl, username, password, role, accessible_projects) ==
    LET users_df == read_excel_file(ss, fl)
        user_count == IF IsEmpty(users_df) THEN 0 ELSE Len(users_df.rows)
        new_user == UserRecord(UserId(user_count + 1), username, username,
                       _hash_password(password), role,
                       IF accessible_projects # <<>> THEN JoinComma(accessible_projects)
                       ELSE IF role = AdminText THEN AllText ELSE <<>>,
                       <<>>, ActiveText)
    IN  IF ~IsEmpty(users_df) /\ "Username" \notin users_df.cols
        THEN [ok |-> FALSE, session |-> ss, files |-> fl]
        ELSE IF ~IsEmpty(users_df) /\ UserRows(users_df, "Username", username) # {}
        THEN [ok |-> FALSE, session |-> ss, files |-> fl]
        ELSE write_excel_file(ss, fl,
                IF IsEmpty(users_df) THEN FromRecords(<<new_user>>)
                ELSE Concat(users_df, FromRecords(<<new_user>>)))

\* AuthManager.create_user of utils/auth_manager.py; user_data is the dict
\* of the caller, with the plain Password in it
auth_create_user(ss, fl, user_data) ==
    LET users_df == read_excel_file(ss, fl)
        no == [ok |-> FALSE, session |-> ss, files |-> fl]
        keys == (DOMAIN user_data \ {"Password"})
                    \cup {"Password_Hash", "Created_Date", "Status"}
        new_user == [c \in keys |->
                        IF c = "Password_Hash"
                        THEN Str(_hash_password(user_data["Password"].s))
                        ELSE IF c = "Created_Date" THEN Str(NowText)
                        ELSE IF c = "Status" THEN Str(ActiveText)
                        ELSE user_data[c]]
    IN  IF ~has_role(ss, AdminText) THEN no
        ELSE IF ~IsEmpty(users_df) /\ "Username" \notin users_df.cols THEN no
        ELSE IF ~IsEmpty(users_df)
                /\ UserRows(users_df, "Username", user_data["Username"].s) # {}
        THEN no
        ELSE write_excel_file(ss, fl, Concat(users_df, FromRecords(<<new_user>>)))

\* project_name in [p.strip() for p in assigned_projects.split(',')]
InProjectList(assigned_projects, project_name) ==
    \E i \in 1..Len(SplitComma(assigned_projects)) :
       Strip(SplitComma(assigned_projects)[i]) = project_name

\* AuthManager.has_project_access of utils/auth_manager.py: "True", "False",
\* or "AttributeError" when the assignment of the session has no split
has_project_access(ss, project_name) ==
    LET user_role == Get(ss, "role", Str(<<>>))
        assigned_projects == Get(ss, "assigned_projects", Str(<<>>))
    IN  IF ~is_authenticated(ss) THEN "False"
        ELSE IF CellEq(user_role, AdminText) \/ CellEq(assigned_projects, AllText)
        THEN "True"
        ELSE IF assigned_projects.k # "str" THEN "AttributeError"
        ELSE IF InProjectList(assigned_projects.s, project_name) THEN "True"
        ELSE "False"

\* AuthManager.has_project_access of main_mongodb.py and
\* main_mongodb_complete.py
has_project_access_main(ss, project_name) ==
    LET role == Get(ss, "role", PyNone)
        assigned_projects == Get(ss, "assigned_projects", PyNone)
    IN  IF CellEq(role, AdminText) THEN "True"
        ELSE IF CellEq(assigned_projects, AllText) THEN "True"
        ELSE IF assigned_projects.k = "str"
        THEN IF InProjectList(assigned_projects.s, project_name) THEN "True"
             ELSE "False"
        ELSE "False"

MakeMyTrip == <<"M","a","k","e","M","y","T","r","i","p">>

Absolute == <<"A","b","s","o","l","u","t","e">>

\* config.PROJECTS, the project list when no projects file is stored
PROJECTS == <<MakeMyTrip, Absolute>>

\* [p.strip() for p in text.split(',')]
StripSplit(text) == [i \in 1..Len(SplitComma(text)) |-> Strip(SplitComma(text)[i])]

\* [p for p in project_list if p in all_projects]
RECURSIVE Existing(_, _)
Existing(project_list, all_projects) ==
    IF project_list = <<>> THEN <<>>
    ELSE (IF InSeq(Head(project_list), all_projects) THEN <<Head(project_list)>>
          ELSE <<>>) \o Existing(Tail(project_list), all_projects)

\* the result of a call that returns a list or raises
Listed(list) == [raised |-> FALSE, list |-> list]

Raised == [raised |-> TRUE, list |-> <<>>]

\* get_user_accessible_projects of main.py; all_projects is what
\* DataManager.get_all_project_names returns
get_user_accessible_projects(ss, all_projects) ==
    LET current_role == Get(ss, "role", Str(ViewerName))
        assigned_projects == Get(ss, "assigned_projects", Str(<<>>))
    IN  IF CellEq(current_role, AdminText) \/ CellEq(assigned_projects, AllText)
        THEN Listed(all_projects)
        ELSE IF Truthy(assigned_projects)
        THEN Listed(Existing(StripSplit(PyText(assigned_projects)), all_projects))
        ELSE Listed(all_projects)

\* AuthManager.get_accessible_projects of utils/auth_manager.py; all_projects
\* is what SharePointManager.get_project_list returns
get_accessible_projects(ss, all_projects) ==
    LET user_role == Get(ss, "role", Str(<<>>))
        assigned_projects == Get(ss, "assigned_projects", Str(<<>>))
    IN  IF ~is_authenticated(ss) THEN Listed(<<>>)
        ELSE IF CellEq(user_role, AdminText) \/ CellEq(assigned_projects, AllText)
        THEN Listed(all_projects)
        ELSE IF assigned_projects.k # "str" THEN Raised
        ELSE Listed(Existing(StripSplit(assigned_projects.s), all_projects))

\* AuthManager.get_accessible_projects of main_mongodb.py and
\* main_mongodb_complete.py
get_accessible_projects_main(ss, m, fl) ==
    LET role == Get(ss, "role", Str(<<>>))
        assigned_projects == Get(ss, "assigned_projects", Str(<<>>))
        projects_df == read_dataframe(m, fl, NoProject, ProjectsName)
        all_projects == [i \in 1..Len(projects_df.rows) |->
                            PyText(projects_df.rows[i]["Project_Name"])]
    IN  IF IsEmpty(projects_df) THEN Listed(<<>>)
        ELSE IF "Project_Name" \notin projects_df.cols THEN Raised
        ELSE IF CellEq(role, AdminText) \/ CellEq(assigned_projects, AllText)
        THEN Listed(all_projects)
        ELSE IF assigned_projects.k = "str" /\ assigned_projects.s # <<>>
        THEN Listed(Existing(StripSplit(assigned_projects.s), all_projects))
        ELSE Listed(<<>>)

ProjectManagerText == <<"p","r","o","j","e","c","t","_","m","a","n","a","g","e","r">>

\* AuthManager.can_edit_data of utils/auth_manager.py: "True", "False", or
\* "AttributeError" out of has_project_access
can_edit_data(ss, project_name) ==
    LET user_role == Get(ss, "role", Str(<<>>))
    IN  IF ~is_authenticated(ss) THEN "False"
        ELSE IF CellEq(user_role, ViewerName) THEN "False"
        ELSE IF CellEq(user_role, AdminText) THEN "True"
        ELSE IF CellEq(user_role, ProjectManagerText)
        THEN IF project_name # <<>> THEN has_project_access(ss, project_name)
             ELSE "True"
        ELSE "False"

can_edit_data_any_role(ss, project_name) == has_project_access_main(ss, project_name)

\* AuthManager.can_edit_data of main_mongodb.py and main_mongodb_complete.py
can_edit_data_main(ss, project_name) ==
    LET role == Get(ss, "role", Str(<<>>))
    IN  IF CellEq(role, AdminText) \/ CellEq(role, ProjectManagerText)
        THEN has_project_access_main(ss, project_name)
        ELSE "False"

\* AuthManager.__init__ of main_mongodb.py and main_mongodb_complete.py
InitSession(ss) ==
    LET a == IF "logged_in" \in DOMAIN ss THEN ss ELSE Put(ss, "logged_in", Bool(FALSE))
        b == IF "username" \in DOMAIN a THEN a ELSE Put(a, "username", PyNone)
        c == IF "role" \in DOMAIN b THEN b ELSE Put(b, "role", PyNone)
    IN  IF "assigned_projects" \in DOMAIN c THEN c
        ELSE Put(c, "assigned_projects", PyNone)

\* AuthManager.create_default_admin of both applications
create_default_admin(m, fl) ==
    write_dataframe(m, fl, NoProject, UsersName,
        FromRecords(<< UserRecord(<<"U","S","R","0","0","1">>, AdminText, <<"A","d","m","i","n","i","s","t","r","a","t","o","r">>,
                                  hash_password(AdminText), AdminText, AllText,
                                  <<"a","d","m","i","n","@","e","x","a","m","p","l","e",".","c","o","m">>, ActiveText) >>))

\* the session of a user that is logged in
LoggedIn(ss, username, role, assigned_projects) ==
    Put(Put(Put(Put(ss, "logged_in", Bool(TRUE)), "username", username),
            "role", role), "assigned_projects", assigned_projects)

\* the branch of authenticate_user for a users row-set that is empty
FirstLogin(m, fl, ss, username, password) ==
    LET w == create_default_admin(m, fl)
    IN  IF username = AdminText /\ password = AdminText
        THEN Au(TRUE, FALSE, LoggedIn(ss, Str(AdminText), Str(AdminText), Str(AllText)),
                w.mongo, w.files)
        ELSE Au(FALSE, FALSE, ss, m, fl)

\* AuthManager.authenticate_user of main_mongodb.py; raised is TRUE when the
\* call ends with a KeyError for a column that the users row-set lacks
authenticate_user_main(m, fl, ss, username, password) ==
    LET users_df == read_dataframe(m, fl, NoProject, UsersName)
        user_row == UserRows(users_df, "username", username)
        user_data == users_df.rows[FirstOf(user_row)]
        password_col == IF "Password_Hash" \in users_df.cols THEN "Password_Hash"
                        ELSE "password"
        role_col == IF "Role" \in users_df.cols THEN "Role" ELSE "role"
        projects_col == IF "Assigned_Projects" \in users_df.cols
                        THEN "Assigned_Projects" ELSE "assigned_projects"
        assigned == IF projects_col \in users_df.cols THEN user_data[projects_col]
                    ELSE Str(AllText)
    IN  IF IsEmpty(users_df) THEN FirstLogin(m, fl, ss, username, password)
        ELSE IF "username" \notin users_df.cols THEN Au(FALSE, TRUE, ss, m, fl)
        ELSE IF user_row = {} THEN Au(FALSE, FALSE, ss, m, fl)
        ELSE IF password_col \notin users_df.cols THEN Au(FALSE, TRUE, ss, m, fl)
        ELSE IF ~CellEq(user_data[password_col], hash_password(password))
        THEN Au(FALSE, FALSE, ss, m, fl)
        ELSE IF role_col \notin users_df.cols
        THEN Au(FALSE, TRUE,
                Put(Put(ss, "logged_in", Bool(TRUE)), "username", Str(username)),
                m, fl)
        ELSE Au(TRUE, FALSE,
                LoggedIn(ss, Str(username), user_data[role_col], assigned), m, fl)

\* AuthManager.authenticate_user of main_mongodb_complete.py
authenticate_user_complete(m, fl, ss, username, password) ==
    LET users_df == read_dataframe(m, fl, NoProject, UsersName)
        user_row == UserRows(users_df, "Username", username)
        user_data == users_df.rows[FirstOf(user_row)]
    IN  IF IsEmpty(users_df) THEN FirstLogin(m, fl, ss, username, password)
        ELSE IF "Username" \notin users_df.cols THEN Au(FALSE, TRUE, ss, m, fl)
        ELSE IF user_row = {} THEN Au(FALSE, FALSE, ss, m, fl)
        ELSE IF "Password_Hash" \notin users_df.cols THEN Au(FALSE, TRUE, ss, m, fl)
        ELSE IF ~CellEq(user_data["Password_Hash"], hash_password(password))
        THEN Au(FALSE, FALSE, ss, m, fl)
        ELSE IF "Role" \notin users_df.cols
        THEN Au(FALSE, TRUE,
                Put(Put(ss, "logged_in", Bool(TRUE)), "username", Str(username)),
                m, fl)
        ELSE IF "Assigned_Projects" \notin users_df.cols
        THEN Au(FALSE, TRUE,
                Put(Put(Put(ss, "logged_in", Bool(TRUE)), "username", Str(username)),
                    "role", user_data["Role"]),
                m, fl)
        ELSE Au(TRUE, FALSE,
                LoggedIn(ss, Str(username), user_data["Role"],
                         user_data["Assigned_Projects"]), m, fl)

\* AuthManager.logout of main_mongodb.py and main_mongodb_complete.py
logout_main(ss) ==
    Put(LoggedIn(ss, PyNone, PyNone, PyNone), "logged_in", Bool(FALSE))

-----------------------------------------------------------------------------
(* Inputs.                                                                 *)

Sessions == {1}

\* the script runs of two browser sessions, each in a thread of its own
Threads == {1, 2}

\* a script run that is in no TableManager call; a script run handles one
\* form submission, which makes one TableManager call, and ends
NoCall == [op |-> "none", made |-> FALSE]

NoCalls == [t \in Threads |-> NoCall]

Pilot == <<"P","i","l","o","t">>

Farm == <<"F","a","r","m">>

ProjectNames == {Pilot, Farm}

SoilTests == <<"S","o","i","l"," ","T","e","s","t","s">>

NoneName == <<"N","o","n","e">>

TableNames == {SoilTests, NoneName}

DateText == <<"2","0","2","4","-","0","5","-","0","1">>

SoilFields == << Field("Date", "Text", TRUE, <<>>), Field("pH", "Number", TRUE, <<>>) >>

Records ==
    { [Date |-> Str(DateText), pH |-> Num(<<"6",".","5">>)],
      [Date |-> Str(DateText), pH |-> Str(<<"a","c","i","d">>)],
      [Date |-> Str(DateText), pH |-> Str(<<>>), Note |-> Str(<<"7">>)] }

SchemaRecords ==
    { [Date |-> Str(DateText), pH |-> Num(<<"6",".","5">>)],
      [Date |-> Str(DateText), pH |-> Str(<<>>), Note |-> Str(<<"7">>)] }

NewFields ==
    { Field("Depth", "Number", FALSE, <<"5">>),
      Field("Note", "Text", FALSE, <<>>),
      Field("Lime", "Number", FALSE, <<"l","o","w">>) }

ProjectData(name) ==
    [Project_ID |-> Str(<<"I","D">> \o name), Project_Name |-> Str(name)]

NoField == Field("", "", FALSE, <<>>)

\* the operation that ran last: its arguments and its return value
Last(op, ret, project, table, idx, df, field) ==
    [op |-> op, ret |-> ret, project |-> project, table |-> table,
     idx |-> idx, df |-> df, field |-> field, snap |-> <<>>]

-----------------------------------------------------------------------------
(* The state machine.                                                      *)

Init ==
    /\ is_online \in BOOLEAN
    /\ mongo = <<>>
    /\ files = <<>>
    /\ gsheets = NotConnected
    /\ calls = NoCalls
    /\ tables_cache = [s \in Sessions |-> clear_cache]
    /\ session_state = [s \in Sessions |-> <<>>]
    /\ last = Last("init", FALSE, <<>>, <<>>, 0, EmptyDF, NoField)

Rows(project_name, table_name) ==
    Len(get_table_data(mongo, files, project_name, table_name).rows)

CreateProject(s, name) ==
    \E r \in {create_project(mongo, files, tables_cache[s], ProjectData(name))} :
        /\ mongo' = r.mongo
        /\ files' = r.files
        /\ tables_cache' = [tables_cache EXCEPT ![s] = r.cache]
        /\ last' = Last("create_project", r.ok, name, <<>>, 0, EmptyDF, NoField)
        /\ UNCHANGED <<calls, gsheets, is_online, session_state>>

CreateTable(s, table_name, fields, associated_projects) ==
    \E r \in {create_table(mongo, files, tables_cache[s], table_name, <<>>,
                          fields, associated_projects)} :
        /\ Len(read_dataframe(mongo, files, NoProject, TablesName).rows) < 2 + MaxTables
        /\ mongo' = r.mongo
        /\ files' = r.files
        /\ tables_cache' = [tables_cache EXCEPT ![s] = r.cache]
        /\ last' = [Last("create_table", r.ok, <<>>, table_name, 0,
                         FromColumns(FieldNames(fields)), NoField)
                    EXCEPT !.snap = [associated_projects |-> associated_projects]]
        /\ UNCHANGED <<calls, gsheets, is_online, session_state>>

\* the field list of the table and the columns of its row-sets
Snapshot(s, table_name) ==
    [fields |-> get_table_schema(mongo, files, tables_cache[s], table_name),
     cols |-> [p \in ProjectNames |->
                  get_table_data(mongo, files, p, table_name).cols]]

AddField(s, table_name, field_config) ==
    \E r \in {add_field_to_table(mongo, files, tables_cache[s], table_name, field_config)} :
        /\ \/ Len(get_table_schema(mongo, files, tables_cache[s], table_name))
                  < Len(SoilFields) + MaxFields
           \/ field_config.name
                  \in FieldNames(get_table_schema(mongo, files, tables_cache[s], table_name))
        /\ mongo' = r.mongo
        /\ files' = r.files
        /\ tables_cache' = [tables_cache EXCEPT ![s] = r.cache]
        /\ last' = [Last("add_field_to_table", r.ok, <<>>, table_name, 0,
                         EmptyDF, field_config)
                    EXCEPT !.snap = Snapshot(s, table_name)]
        /\ UNCHANGED <<calls, gsheets, is_online, session_state>>

DeleteField(s, table_name, field_name) ==
    \E r \in {delete_field_from_table(mongo, files, tables_cache[s], table_name, field_name)} :
        /\ mongo' = r.mongo
        /\ files' = r.files
        /\ tables_cache' = [tables_cache EXCEPT ![s] = r.cache]
        /\ last' = Last("delete_field_from_table", r.ok, <<>>, table_name, 0,
                        EmptyDF, Field(field_name, "", FALSE, <<>>))
        /\ UNCHANGED <<calls, gsheets, is_online, session_state>>

AddRecord(project_name, table_name, record_data) ==
    \E r \in {add_record(mongo, files, project_name, table_name, record_data)} :
        /\ Rows(project_name, table_name) < MaxRows
        /\ mongo' = r.mongo
        /\ files' = r.files
        /\ last' = Last("add_record", r.ok, project_name, table_name, 0,
                        FromRecords(<<record_data>>), NoField)
        /\ UNCHANGED <<calls, gsheets, is_online, tables_cache, session_state>>

UpdateRecord(project_name, table_name, record_idx, updated_data) ==
    \E r \in {update_record(mongo, files, project_name, table_name, record_idx,
                           updated_data)} :
        /\ mongo' = r.mongo
        /\ files' = r.files
        /\ last' = Last("update_record", r.ok, project_name, table_name, record_idx,
                        FromRecords(<<updated_data>>), NoField)
        /\ UNCHANGED <<calls, gsheets, is_online, tables_cache, session_state>>

DeleteRecord(project_name, table_name, record_idx) ==
    \E r \in {delete_record(mongo, files, project_name, table_name, record_idx)} :
        /\ mongo' = r.mongo
        /\ files' = r.files
        /\ last' = Last("delete_record", r.ok, project_name, table_name, record_idx,
                        EmptyDF, NoField)
        /\ UNCHANGED <<calls, gsheets, is_online, tables_cache, session_state>>

\* 30 seconds pass: the tables cache of the session is no longer valid
TimePasses(s) ==
    /\ tables_cache[s].fresh
    /\ tables_cache' = [tables_cache EXCEPT ![s].fresh = FALSE]
    /\ last' = Last("time", FALSE, <<>>, <<>>, 0, EmptyDF, NoField)
    /\ UNCHANGED <<calls, gsheets, is_online, mongo, files, session_state>>

\* TableManager.update_table_data: the frame replaces the stored row-set
UpdateTableData(project_name, table_name, updated_dataframe) ==
    \E r \in {write_dataframe(mongo, files, project_name, CollectionName(table_name),
                             updated_dataframe)} :
        /\ mongo' = r.mongo
        /\ files' = r.files
        /\ last' = Last("update_table_data", r.ok, project_name, table_name, 0,
                        updated_dataframe, NoField)
        /\ UNCHANGED <<calls, gsheets, is_online, tables_cache, session_state>>

\* the frames given to update_table_data
Frames ==
    { EmptyDF, FromColumns({"Date", "pH"}) }
    \cup {FromRecords(<<r>>) : r \in Records}

\* Record CRUD and whole-frame writes on the row-sets of the projects
NextCrud ==
    \/ \E r \in Records : AddRecord(Pilot, SoilTests, r)
    \/ \E i \in 0..MaxRows, r \in Records : UpdateRecord(Pilot, SoilTests, i, r)
    \/ \E i \in 0..MaxRows : DeleteRecord(Pilot, SoilTests, i)
    \/ \E df \in Frames : UpdateTableData(Pilot, SoilTests, df)

SpecCrud == Init /\ [][NextCrud]_vars

\* Records are added, patched, and the first one deleted
NextUpdate ==
    \/ \E r \in Records : AddRecord(Pilot, SoilTests, r)
    \/ \E i \in 0..MaxRows, r \in Records : UpdateRecord(Pilot, SoilTests, i, r)
    \/ DeleteRecord(Pilot, SoilTests, 0)

SpecUpdate == Init /\ [][NextUpdate]_vars

\* Project_Name values of the projects row-set, as the pages list them
ExistingProjects ==
    LET projects_df == read_dataframe(mongo, files, NoProject, ProjectsName)
    IN  {ProjectKey(projects_df.rows[i]["Project_Name"]) :
            i \in 1..Len(projects_df.rows)}

AddPilotRecord(r) ==
    /\ Pilot \in ExistingProjects
    /\ Rows(Pilot, SoilTests) < MaxSchemaRows
    /\ AddRecord(Pilot, SoilTests, r)

\* the stored registry
Registry(m, fl) == read_dataframe(m, fl, NoProject, TablesName)

\* a record is added to the row-set of a project and a table that exist
AddTableRecord(r) ==
    /\ Pilot \in ExistingProjects
    /\ TableRows(Registry(mongo, files), SoilTests) # {}
    /\ AddRecord(Pilot, SoilTests, r)

\* The registry: projects and tables are created, records added
NextRegistry ==
    \/ \E s \in Sessions, name \in ProjectNames : CreateProject(s, name)
    \/ \E s \in Sessions, a \in {<<AllText>>, <<Pilot>>} :
          CreateTable(s, SoilTests, SoilFields, a)
    \/ \E s \in Sessions : CreateTable(s, NoneName, SoilFields, <<AllText>>)
    \/ \E r \in SchemaRecords : AddTableRecord(r)
    \/ \E s \in Sessions : TimePasses(s)

SpecRegistry == Init /\ [][NextRegistry]_vars

\* Schema evolution: fields are added to and deleted from a table
Next ==
    \/ \E s \in Sessions, name \in ProjectNames : CreateProject(s, name)
    \/ \E s \in Sessions : CreateTable(s, SoilTests, SoilFields, <<AllText>>)
    \/ \E s \in Sessions, f \in NewFields : AddField(s, SoilTests, f)
    \/ \E s \in Sessions, f \in NewFields : DeleteField(s, SoilTests, f.name)
    \/ \E r \in SchemaRecords : AddPilotRecord(r)
    \/ \E s \in Sessions : TimePasses(s)

Spec == Init /\ [][Next]_vars

\* Fields are added to a table whose row-sets hold records
NextAddField ==
    \/ \E s \in Sessions, name \in ProjectNames : CreateProject(s, name)
    \/ \E s \in Sessions : CreateTable(s, SoilTests, SoilFields, <<AllText>>)
    \/ \E s \in Sessions, f \in NewFields : AddField(s, SoilTests, f)
    \/ \E r \in SchemaRecords : AddPilotRecord(r)

SpecAddField == Init /\ [][NextAddField]_vars

\* the new specifications given to edit_field_in_table
EditFields ==
    { Field("Acidity", "Number", TRUE, <<>>),
      Field("Date", "Text", TRUE, <<>>),
      Field("pH", "Text", FALSE, <<>>) }

\* some row-set of the table has had two columns of one name
HasMangled(table_name) ==
    \E p \in ProjectNames, c \in DOMAIN MangledNames :
       MangledNames[c] \in get_table_data(mongo, files, p, table_name).cols

\* a field is edited; a row-set is followed up to its first pair of columns
\* with one name
EditField(s, table_name, old_field_name, new_field_config, old_last) ==
    \E r \in {edit_field_in_table(mongo, files, tables_cache[s], table_name,
                                  old_field_name, new_field_config, old_last)} :
        /\ ~HasMangled(table_name)
        /\ mongo' = r.mongo
        /\ files' = r.files
        /\ tables_cache' = [tables_cache EXCEPT ![s] = r.cache]
        /\ last' = [Last("edit_field_in_table", r.ok, <<>>, table_name, 0,
                         EmptyDF, new_field_config)
                    EXCEPT !.snap = [old |-> old_field_name, old_last |-> old_last]]
        /\ UNCHANGED <<calls, gsheets, is_online, session_state>>

NoteField == Field("Note", "Text", FALSE, <<>>)

\* Schema evolution with renames: fields are added, edited and deleted
NextEdit ==
    \/ \E s \in Sessions : CreateProject(s, Pilot)
    \/ \E s \in Sessions : CreateTable(s, SoilTests, SoilFields, <<AllText>>)
    \/ \E s \in Sessions : AddField(s, SoilTests, NoteField)
    \/ \E s \in Sessions, f \in EditFields, b \in BOOLEAN :
          EditField(s, SoilTests, "pH", f, b)
    \/ \E s \in Sessions : DeleteField(s, SoilTests, "Date")
    \/ \E r \in SchemaRecords : AddPilotRecord(r)

SpecEdit == Init /\ [][NextEdit]_vars

\* The field list of one table: fields are added, renamed and deleted
NextFields ==
    \/ \E s \in Sessions : CreateProject(s, Pilot)
    \/ \E s \in Sessions : CreateTable(s, SoilTests, SoilFields, <<AllText>>)
    \/ \E s \in Sessions : AddField(s, SoilTests, NoteField)
    \/ \E s \in Sessions, f \in EditFields : EditField(s, SoilTests, "pH", f, TRUE)
    \/ \E s \in Sessions, name \in {"Date", "Note"} : DeleteField(s, SoilTests, name)

SpecFields == Init /\ [][NextFields]_vars

LimeField == Field("Lime", "Number", FALSE, <<"l","o","w">>)

\* Schema calls that succeed and schema calls that return False
NextSchema ==
    \/ \E s \in Sessions : CreateProject(s, Pilot)
    \/ \E s \in Sessions : CreateTable(s, SoilTests, SoilFields, <<AllText>>)
    \/ \E r \in SchemaRecords : AddPilotRecord(r)
    \/ \E s \in Sessions, t \in TableNames, f \in {NoteField, LimeField} :
          AddField(s, t, f)
    \/ \E s \in Sessions, old \in {"pH", "Depth"} :
          EditField(s, SoilTests, old, Field("Acidity", "Number", TRUE, <<>>), TRUE)
    \/ \E s \in Sessions, name \in {"Note", "Depth"} : DeleteField(s, SoilTests, name)
    \/ \E s \in Sessions : TimePasses(s)

SpecSchema == Init /\ [][NextSchema]_vars

\* a page of the application lists the tables
GetAllTables(s) ==
    \E r \in {get_all_tables(mongo, files, tables_cache[s])} :
        /\ mongo' = r.mongo
        /\ files' = r.files
        /\ tables_cache' = [tables_cache EXCEPT ![s] = r.cache]
        /\ last' = [Last("get_all_tables", TRUE, <<>>, <<>>, 0, r.df, NoField)
                    EXCEPT !.snap = [read |-> "ok"]]
        /\ UNCHANGED <<calls, gsheets, is_online, session_state>>

\* the same while the database does not answer the read
GetAllTablesReadError(s, write_raises) ==
    /\ is_online
    /\ \E r \in {get_all_tables_read_error(mongo, files, tables_cache[s], write_raises)} :
        /\ mongo' = r.mongo
        /\ files' = r.files
        /\ tables_cache' = [tables_cache EXCEPT ![s] = r.cache]
        /\ last' = [Last("get_all_tables", TRUE, <<>>, <<>>, 0, r.df, NoField)
                    EXCEPT !.snap = [read |-> "error", write_raises |-> write_raises]]
        /\ UNCHANGED <<calls, gsheets, is_online, session_state>>

\* Tables are listed while the registry grows and storage comes and goes
NextOutage ==
    \/ \E s \in Sessions : CreateTable(s, SoilTests, SoilFields, <<AllText>>)
    \/ \E s \in Sessions, f \in NewFields : AddField(s, SoilTests, f)
    \/ \E s \in Sessions, f \in NewFields : DeleteField(s, SoilTests, f.name)
    \/ \E s \in Sessions : TimePasses(s)
    \/ \E s \in Sessions : GetAllTables(s)
    \/ \E s \in Sessions, write_raises \in BOOLEAN : GetAllTablesReadError(s, write_raises)

SpecOutage == Init /\ [][NextOutage]_vars

\* Two browser sessions share the managers of get_managers and the stored
\* registry; st.session_state['tables_cache'] is a cache of each session
BothSessions == {1, 2}

InitSessions ==
    /\ is_online \in BOOLEAN
    /\ mongo = <<>>
    /\ files = <<>>
    /\ gsheets = NotConnected
    /\ calls = NoCalls
    /\ tables_cache = [s \in BothSessions |-> clear_cache]
    /\ session_state = [s \in BothSessions |-> <<>>]
    /\ last = Last("init", FALSE, <<>>, <<>>, 0, EmptyDF, NoField)

NextSessions ==
    \/ \E s \in BothSessions : CreateTable(s, SoilTests, SoilFields, <<AllText>>)
    \/ \E s \in BothSessions, f \in {NoteField, Field("Depth", "Number", FALSE, <<"5">>)} :
          AddField(s, SoilTests, f)
    \/ \E s \in BothSessions : DeleteField(s, SoilTests, "Date")
    \/ \E s \in BothSessions : GetAllTables(s)
    \/ \E s \in BothSessions : TimePasses(s)

SpecSessions == InitSessions /\ [][NextSessions]_vars

\* a table name that differs from "Soil Tests" in letter case and in an
\* underscore for the space
SoilTestsSnake == <<"s","o","i","l","_","t","e","s","t","s">>

LikeNames == {SoilTests, SoilTestsSnake}

\* a record is added to a table that is registered
AddNamedRecord(table_name, r) ==
    /\ Pilot \in ExistingProjects
    /\ TableRows(Registry(mongo, files), table_name) # {}
    /\ Rows(Pilot, table_name) < MaxSchemaRows
    /\ AddRecord(Pilot, table_name, r)

\* Tables are created under names that are alike
NextNames ==
    \/ \E s \in Sessions : CreateProject(s, Pilot)
    \/ \E s \in Sessions, t \in LikeNames, a \in {<<AllText>>, <<Farm>>} :
          CreateTable(s, t, SoilFields, a)
    \/ \E t \in LikeNames, r \in SchemaRecords : AddNamedRecord(t, r)
    \/ \E s \in Sessions : TimePasses(s)

SpecNames == Init /\ [][NextNames]_vars

\* most rows of the projects row-set
MaxProjects == 3

StoredProjects == read_dataframe(mongo, files, NoProject, ProjectsName)

\* the Project_ID values typed into the form
ProjectIds == { <<"P","1">>, <<"P","2">>, <<"I","D">> \o Pilot }

CreateProjectAdmin(s, project_id, name) ==
    /\ Len(StoredProjects.rows) < MaxProjects
    /\ \E r \in {create_project(mongo, files, tables_cache[s],
                                 [Project_ID |-> Str(project_id),
                                  Project_Name |-> Str(name)])} :
        /\ mongo' = r.mongo
        /\ files' = r.files
        /\ tables_cache' = [tables_cache EXCEPT ![s] = r.cache]
        /\ last' = [Last("create_project", r.ok, name, <<>>, 0, EmptyDF, NoField)
                    EXCEPT !.snap = [Project_ID |-> project_id]]
        /\ UNCHANGED <<calls, gsheets, is_online, session_state>>

MongoCreateProject(s, project_id, name) ==
    /\ Len(StoredProjects.rows) < MaxProjects
    /\ \E r \in {mongo_create_project(mongo, files, tables_cache[s],
                                       [Project_ID |-> Str(project_id),
                                        Project_Name |-> Str(name)])} :
        /\ mongo' = r.mongo
        /\ files' = r.files
        /\ tables_cache' = [tables_cache EXCEPT ![s] = r.cache]
        /\ last' = [Last("MongoDBManager.create_project", r.ok, name, <<>>, 0,
                         EmptyDF, NoField)
                    EXCEPT !.snap = [Project_ID |-> project_id]]
        /\ UNCHANGED <<calls, gsheets, is_online, session_state>>

ShowProjectManagement(s, project_id, name) ==
    /\ Len(StoredProjects.rows) < MaxProjects
    /\ \E r \in {show_project_management(mongo, files, tables_cache[s],
                                          project_id, name)} :
        /\ mongo' = r.mongo
        /\ files' = r.files
        /\ tables_cache' = [tables_cache EXCEPT ![s] = r.cache]
        /\ last' = [Last("show_project_management", r.ok, name, <<>>, 0,
                         EmptyDF, NoField)
                    EXCEPT !.snap = [Project_ID |-> project_id]]
        /\ UNCHANGED <<calls, gsheets, is_online, session_state>>

\* Projects are created through the three paths of the MongoDB applications
NextProjects ==
    \/ \E s \in Sessions, i \in ProjectIds, n \in ProjectNames :
          CreateProjectAdmin(s, i, n)
    \/ \E s \in Sessions, i \in ProjectIds, n \in ProjectNames :
          MongoCreateProject(s, i, n)
    \/ \E s \in Sessions, i \in ProjectIds, n \in ProjectNames \cup {<<>>} :
          ShowProjectManagement(s, i, n)

SpecProjects == Init /\ [][NextProjects]_vars

\* the file names given to the backends
FileNames ==
    { <<"s","o","i","l","_","t","e","s","t","s">>,
      <<"s","o","i","l","_","t","e","s","t","s">> \o XlsxText }

\* a reading or a writing of a backend: the call, what it returned, and
\* whether it raised
LastIO(op, backend, ret, project, table, df) ==
    [Last(op, ret, project, table, 0, df, NoField)
     EXCEPT !.snap = [backend |-> backend, raised |-> FALSE]]

\* the backends at the start: MongoDB reachable or not, Google Sheets
\* connected or not, nothing written
InitBackends ==
    /\ is_online \in BOOLEAN
    /\ mongo = <<>>
    /\ files = <<>>
    /\ gsheets \in {NotConnected, [NotConnected EXCEPT !.connected = TRUE]}
    /\ calls = NoCalls
    /\ tables_cache = [s \in Sessions |-> clear_cache]
    /\ session_state = [s \in Sessions |-> <<>>]
    /\ last = Last("init", FALSE, <<>>, <<>>, 0, EmptyDF, NoField)

\* MongoDBManager.read_dataframe
ReadDataframe(project_name, collection_name) ==
    /\ last' = LastIO("read_dataframe", "mongodb", TRUE, project_name, collection_name,
                      read_dataframe(mongo, files, project_name, collection_name))
    /\ UNCHANGED <<calls, gsheets, is_online, mongo, files, tables_cache, session_state>>

\* MongoDBManager.write_dataframe
WriteDataframe(project_name, collection_name, df) ==
    \E r \in {write_dataframe(mongo, files, project_name, collection_name, df)} :
        /\ mongo' = r.mongo
        /\ files' = r.files
        /\ last' = LastIO("write_dataframe", "mongodb", r.ok, project_name,
                          collection_name, df)
        /\ UNCHANGED <<calls, gsheets, is_online, tables_cache, session_state>>

\* GoogleSheetsManager.read_dataframe
GsReadDataframe(project_name, file_name) ==
    \E r \in {gs_read_dataframe(gsheets, project_name, file_name)} :
        /\ gsheets' = r.gsheets
        /\ last' = LastIO("read_dataframe", "gsheets", TRUE, project_name,
                          file_name, r.df)
        /\ UNCHANGED <<calls, is_online, mongo, files, tables_cache, session_state>>

\* GoogleSheetsManager.write_dataframe
GsWriteDataframe(project_name, file_name, df) ==
    \E r \in {gs_write_dataframe(gsheets, project_name, file_name, df)} :
        /\ gsheets' = r.gsheets
        /\ last' = LastIO("write_dataframe", "gsheets", r.ok, project_name,
                          file_name, df)
        /\ UNCHANGED <<calls, is_online, mongo, files, tables_cache, session_state>>

\* the frames written to the backends
IOFrames ==
    { FromColumns({"Date", "pH"}),
      FromRecords(<< [Date |-> Str(DateText), pH |-> Num(<<"6",".","5">>)] >>) }

\* Reads and writes of the two backends
NextBackends ==
    \/ \E p \in {NoProject, Pilot}, t \in FileNames : ReadDataframe(p, t)
    \/ \E df \in IOFrames :
          WriteDataframe(Pilot, <<"s","o","i","l","_","t","e","s","t","s">>, df)
    \/ \E p \in {NoProject, Pilot}, t \in FileNames : GsReadDataframe(p, t)
    \/ \E df \in IOFrames :
          GsWriteDataframe(Pilot, <<"s","o","i","l","_","t","e","s","t","s">> \o XlsxText, df)

SpecBackends == InitBackends /\ [][NextBackends]_vars

-----------------------------------------------------------------------------
(* Two sessions at once.  Streamlit runs the script of each session in a   *)
(* thread of its own; a TableManager call reads the row-set in one step    *)
(* and rewrites it in a later one, and the other thread may run between.   *)

\* the records stored before the two sessions start
SeedRecords ==
    << [Date |-> Str(DateText), pH |-> Num(<<"5">>)],
       [Date |-> Str(DateText), pH |-> Num(<<"8">>)],
       [Date |-> Str(DateText), pH |-> Num(<<"9">>)],
       [Date |-> Str(DateText), pH |-> Num(<<"4">>)] >>

\* most rows of the row-set the sessions work on
MaxRaceRows == 3

\* what the forms of the two sessions are filled with
RaceRecords ==
    << [Date |-> Str(DateText), pH |-> Num(<<"6",".","5">>)],
       [Date |-> Str(DateText), pH |-> Num(<<"7">>)] >>

RaceOps == {"add_record", "update_record", "delete_record"}

\* the whole call, run with no other thread between its read and its write
WholeCall(m, fl, op, project_name, table_name, record_idx, data) ==
    CASE op = "add_record" -> add_record(m, fl, project_name, table_name, data)
      [] op = "update_record" ->
            update_record(m, fl, project_name, table_name, record_idx, data)
      [] OTHER -> delete_record(m, fl, project_name, table_name, record_idx)

\* the page of session t shows the row-set and the user picks the row at
\* index i: the expander of show_manage_records, the entry of the multiselect
ChooseRow(t, project_name, table_name, i) ==
    /\ calls[t].op = "none"
    /\ ~calls[t].made
    /\ i < Rows(project_name, table_name)
    /\ calls' = [calls EXCEPT ![t] =
                   [op |-> "chosen", made |-> calls[t].made,
                    project |-> project_name, table |-> table_name, idx |-> i,
                    existing_data |-> get_table_data(mongo, files, project_name,
                                                     table_name),
                    raced |-> <<>>]]
    /\ UNCHANGED <<gsheets, is_online, mongo, files, tables_cache, session_state, last>>

\* existing_data = self.get_table_data(project_name, table_name): the thread
\* holds the row-set it read.  shown is the row-set the index was picked
\* from and before the calls of other threads that ended since; alone is
\* the row-set the call would leave if it ran whole now, raced lists the
\* calls of other threads that end on the row-set before this one does
BeginCall(t, op, project_name, table_name, record_idx, data) ==
    /\ calls[t].op \in {"none", "chosen"}
    /\ ~calls[t].made
    /\ op = "add_record" => Rows(project_name, table_name) < MaxRaceRows
    /\ calls[t].op = "chosen" =>
          /\ op # "add_record"
          /\ calls[t].project = project_name
          /\ calls[t].table = table_name
          /\ calls[t].idx = record_idx
    /\ \E r \in {WholeCall(mongo, files, op, project_name, table_name,
                           record_idx, data)},
          existing_data \in {get_table_data(mongo, files, project_name, table_name)} :
          calls' = [calls EXCEPT ![t] =
                      [op |-> op, made |-> calls[t].made,
                       project |-> project_name, table |-> table_name,
                       idx |-> record_idx, data |-> data,
                       existing_data |-> existing_data,
                       shown |-> IF calls[t].op = "chosen"
                                 THEN calls[t].existing_data ELSE existing_data,
                       before |-> IF calls[t].op = "chosen"
                                  THEN calls[t].raced ELSE <<>>,
                       alone |-> get_table_data(r.mongo, r.files, project_name,
                                                table_name),
                       raced |-> <<>>]]
    /\ UNCHANGED <<gsheets, is_online, mongo, files, tables_cache, session_state, last>>

\* the rest of the call of thread t, from the row-set it holds
EndCall(t) ==
    /\ calls[t].op \in RaceOps
    /\ LET c == calls[t]
       IN  \E r \in {CASE c.op = "add_record" ->
                           add_record_write(mongo, files, c.project, c.table,
                                            c.data, c.existing_data)
                       [] c.op = "update_record" ->
                           update_record_write(mongo, files, c.project, c.table,
                                               c.idx, c.data, c.existing_data)
                       [] OTHER ->
                           delete_record_write(mongo, files, c.project, c.table,
                                               c.idx, c.existing_data)} :
              /\ mongo' = r.mongo
              /\ files' = r.files
              /\ calls' = [u \in Threads |->
                             IF u = t THEN [op |-> "none", made |-> TRUE]
                             ELSE IF calls[u].op # "none" /\ calls[u].project = c.project
                                     /\ calls[u].table = c.table
                             THEN [calls[u] EXCEPT !.raced =
                                      Append(@, [op |-> c.op, ret |-> r.ok,
                                                 idx |-> c.idx, data |-> c.data,
                                                 existing_data |-> c.existing_data])]
                             ELSE calls[u]]
              /\ last' = [Last(c.op, r.ok, c.project, c.table, c.idx,
                               FromRecords(<<c.data>>), NoField)
                          EXCEPT !.snap = [thread |-> t,
                                           existing_data |-> c.existing_data,
                                           shown |-> c.shown, before |-> c.before,
                                           alone |-> c.alone, raced |-> c.raced]]
    /\ UNCHANGED <<gsheets, is_online, tables_cache, session_state>>

RECURSIVE Seeded(_)
\* the storage after add_record of the first n seed records
Seeded(n) ==
    IF n = 0 THEN [ok |-> TRUE, mongo |-> <<>>, files |-> <<>>]
    ELSE Bind(Seeded(n - 1), LAMBDA w :
            add_record(w.mongo, w.files, Pilot, SoilTests, SeedRecords[n]))

\* the row-set holds the first n of the seed records, each stored by an
\* add_record of an earlier session
InitRace ==
    /\ is_online \in BOOLEAN
    /\ gsheets = NotConnected
    /\ tables_cache = [s \in Sessions |-> clear_cache]
    /\ session_state = [s \in Sessions |-> <<>>]
    /\ calls = NoCalls
    /\ \E n \in 0..MaxRaceRows : \E w \in {Seeded(n)} :
          /\ mongo = w.mongo
          /\ files = w.files
    /\ last = Last("init", FALSE, <<>>, <<>>, 0, EmptyDF, NoField)

NextRace ==
    \/ \E t \in Threads, i \in 0..(MaxRaceRows - 1) : ChooseRow(t, Pilot, SoilTests, i)
    \/ \E t \in Threads, op \in RaceOps, i \in 0..(MaxRaceRows - 1) :
          BeginCall(t, op, Pilot, SoilTests, i,
                    IF op = "update_record" THEN [pH |-> RaceRecords[t].pH]
                    ELSE RaceRecords[t])
    \/ \E t \in Threads : EndCall(t)

SpecRace == InitRace /\ [][NextRace]_vars

-----------------------------------------------------------------------------
(* Logins.  One of the three applications runs; the users collection of    *)
(* the MongoDB applications is empty or holds the accounts an earlier      *)
(* installation left, one of them deactivated.                             *)

Apps == {"utils", "main", "complete"}

Ravi == <<"r","a","v","i">>

Asha == <<"a","s","h","a">>

ViewerText == <<"v","i","e","w","e","r">>

Usernames == {AdminText, Manager1, Ravi}

Passwords == {AdminText, <<"a","d","m","i","n","1","2","3">>, <<"m","a","n","a","g","e","r","1","2","3">>, <<"r","a","v","i","1","2","3">>}

\* accounts in the columns that create_default_admin and create_user write
CapitalUsers ==
    FromRecords(<<
      UserRecord(<<"U","S","R","0","0","1">>, AdminText, <<"A","d","m","i","n","i","s","t","r","a","t","o","r">>, hash_password(AdminText),
                 AdminText, AllText, <<"a","d","m","i","n","@","e","x","a","m","p","l","e",".","c","o","m">>, ActiveText),
      UserRecord(<<"U","S","R","0","0","2">>, Ravi, <<"R","a","v","i">>, hash_password(<<"r","a","v","i","1","2","3">>),
                 ViewerText, Pilot, <<>>, InactiveText) >>)

\* accounts in the columns that the user forms of main_mongodb.py write
LowerUser(username, hash, role, projects, status) ==
    [username |-> Str(username), password |-> Str(hash), role |-> Str(role),
     assigned_projects |-> Str(projects), email |-> Str(<<>>),
     full_name |-> Str(username), status |-> Str(status),
     created_date |-> Str(NowText)]

LowerUsers ==
    FromRecords(<<
      LowerUser(Asha, hash_password(<<"a","s","h","a","1","2","3">>), AdminText, AllText, ActiveText),
      LowerUser(Ravi, hash_password(<<"r","a","v","i","1","2","3">>), ViewerText, Pilot, InactiveText) >>)

UsersSeeds == {EmptyDF, CapitalUsers, LowerUsers}

\* the login call that ran last
LastAuth(op, app, ret, raised, username, password) ==
    [op |-> op, app |-> app, ret |-> ret, raised |-> raised,
     username |-> username, password |-> password]

InitAuth ==
    /\ is_online \in BOOLEAN
    /\ gsheets = NotConnected
    /\ calls = NoCalls
    /\ tables_cache = [s \in Sessions |-> clear_cache]
    /\ \E app \in Apps, seed \in UsersSeeds :
          LET w == write_dataframe(<<>>, <<>>, NoProject, UsersName, seed)
          IN  /\ app = "utils" => seed = EmptyDF
              /\ mongo = IF seed = EmptyDF THEN <<>> ELSE w.mongo
              /\ files = IF seed = EmptyDF THEN <<>> ELSE w.files
              /\ session_state =
                    (app :> IF app = "utils" THEN <<>> ELSE InitSession(<<>>))
    /\ last = LastAuth("init", "", FALSE, FALSE, <<>>, <<>>)

\* the login form of the application built on utils/auth_manager.py
AuthenticateUser(username, password) ==
    /\ "utils" \in DOMAIN session_state
    /\ LET r == authenticate_user(session_state["utils"], files, username, password)
       IN  /\ session_state' = [session_state EXCEPT !["utils"] = r.session]
           /\ files' = r.files
           /\ last' = LastAuth("authenticate_user", "utils", r.ok, r.raised,
                               username, password)
    /\ UNCHANGED <<calls, gsheets, is_online, mongo, tables_cache>>

\* the login form of main_mongodb.py
AuthenticateUserMain(username, password) ==
    /\ "main" \in DOMAIN session_state
    /\ LET r == authenticate_user_main(mongo, files, session_state["main"],
                                       username, password)
       IN  /\ session_state' = [session_state EXCEPT !["main"] = r.session]
           /\ mongo' = r.mongo
           /\ files' = r.files
           /\ last' = LastAuth("authenticate_user", "main", r.ok, r.raised,
                               username, password)
    /\ UNCHANGED <<calls, gsheets, is_online, tables_cache>>

\* the login form of main_mongodb_complete.py
AuthenticateUserComplete(username, password) ==
    /\ "complete" \in DOMAIN session_state
    /\ LET r == authenticate_user_complete(mongo, files, session_state["complete"],
                                           username, password)
       IN  /\ session_state' = [session_state EXCEPT !["complete"] = r.session]
           /\ mongo' = r.mongo
           /\ files' = r.files
           /\ last' = LastAuth("authenticate_user", "complete", r.ok, r.raised,
                               username, password)
    /\ UNCHANGED <<calls, gsheets, is_online, tables_cache>>

Logout ==
    /\ "utils" \in DOMAIN session_state
    /\ session_state' = [session_state EXCEPT !["utils"] = logout(@)]
    /\ last' = LastAuth("logout", "utils", FALSE, FALSE, <<>>, <<>>)
    /\ UNCHANGED <<calls, gsheets, is_online, mongo, files, tables_cache>>

LogoutMain(app) ==
    /\ app \in DOMAIN session_state
    /\ session_state' = [session_state EXCEPT ![app] = logout_main(@)]
    /\ last' = LastAuth("logout", app, FALSE, FALSE, <<>>, <<>>)
    /\ UNCHANGED <<calls, gsheets, is_online, mongo, files, tables_cache>>

\* an administrator sets the Status of an account
UpdateUser(user_id, status) ==
    /\ "utils" \in DOMAIN session_state
    /\ LET r == update_user(session_state["utils"], files, user_id,
                            [Status |-> Str(status)])
       IN  /\ session_state' = [session_state EXCEPT !["utils"] = r.session]
           /\ files' = r.files
           /\ last' = LastAuth("update_user", "utils", r.ok, FALSE, user_id, status)
    /\ UNCHANGED <<calls, gsheets, is_online, mongo, tables_cache>>

\* the create-user form of main.py, shown to an administrator
CreateUser(username, password, role, accessible_projects) ==
    /\ "utils" \in DOMAIN session_state
    /\ has_role(session_state["utils"], AdminText)
    /\ Len(read_excel_file(session_state["utils"], files).rows) < MaxUsers
    /\ \E r \in {create_user(session_state["utils"], files, username, password,
                             role, accessible_projects)} :
          /\ session_state' = [session_state EXCEPT !["utils"] = r.session]
          /\ files' = r.files
          /\ last' = LastAuth("create_user", "utils", r.ok, FALSE, username, password)
    /\ UNCHANGED <<calls, gsheets, is_online, mongo, tables_cache>>

\* a browser opens the application: Streamlit starts an empty session_state,
\* the files stay
NewSession ==
    /\ "utils" \in DOMAIN session_state
    /\ session_state["utils"] # <<>>
    /\ session_state' = [session_state EXCEPT !["utils"] = <<>>]
    /\ last' = LastAuth("new_session", "utils", FALSE, FALSE, <<>>, <<>>)
    /\ UNCHANGED <<calls, gsheets, is_online, mongo, files, tables_cache>>

\* what the create-user form is filled with
NewAccounts ==
    { <<Ravi, <<"r","a","v","i","1","2","3">>, ViewerText, <<>> >>,
      <<Ravi, <<"r","a","v","i","1","2","3">>, ViewerText, <<Pilot, Farm>> >> }

NextAuth ==
    \/ \E u \in Usernames, pw \in Passwords : AuthenticateUser(u, pw)
    \/ \E u \in Usernames, pw \in Passwords : AuthenticateUserMain(u, pw)
    \/ \E u \in Usernames, pw \in Passwords : AuthenticateUserComplete(u, pw)
    \/ Logout
    \/ \E app \in {"main", "complete"} : LogoutMain(app)
    \/ \E status \in {ActiveText, InactiveText} : UpdateUser(<<"p","m","0","0","1">>, status)
    \/ \E a \in NewAccounts : CreateUser(a[1], a[2], a[3], a[4])
    \/ NewSession

SpecAuth == InitAuth /\ [][NextAuth]_vars

\* Accounts of every role, for the questions of who may see and edit what
Mira == <<"m","i","r","a">>

Tara == <<"t","a","r","a">>

Pw(username) == username \o <<"1","2","3">>

\* the accounts of the MongoDB applications: an administrator, a viewer
\* assigned "All", a project manager of Pilot, a viewer with no assignment
AccessUsers(app) ==
    IF app = "main"
    THEN FromRecords(<<
           LowerUser(Asha, hash_password(Pw(Asha)), AdminText, AllText, ActiveText),
           LowerUser(Ravi, hash_password(Pw(Ravi)), ViewerText, AllText, ActiveText),
           LowerUser(Mira, hash_password(Pw(Mira)), ProjectManagerText, Pilot, ActiveText),
           LowerUser(Tara, hash_password(Pw(Tara)), ViewerText, <<>>, ActiveText) >>)
    ELSE FromRecords(<<
           UserRecord(UserId(1), Asha, Asha, hash_password(Pw(Asha)), AdminText,
                      AllText, <<>>, ActiveText),
           UserRecord(UserId(2), Ravi, Ravi, hash_password(Pw(Ravi)), ViewerText,
                      AllText, <<>>, ActiveText),
           UserRecord(UserId(3), Mira, Mira, hash_password(Pw(Mira)),
                      ProjectManagerText, Pilot, <<>>, ActiveText),
           UserRecord(UserId(4), Tara, Tara, hash_password(Pw(Tara)), ViewerText,
                      <<>>, <<>>, ActiveText) >>)

InitAccess ==
    /\ is_online \in BOOLEAN
    /\ gsheets = NotConnected
    /\ calls = NoCalls
    /\ tables_cache = [s \in Sessions |-> clear_cache]
    /\ \E app \in Apps :
          LET u == write_dataframe(<<>>, <<>>, NoProject, UsersName, AccessUsers(app))
              w == write_dataframe(u.mongo, u.files, NoProject, ProjectsName,
                      FromRecords(<<ProjectData(Pilot), ProjectData(Farm)>>))
          IN  /\ mongo = IF app = "utils" THEN <<>> ELSE w.mongo
              /\ files = IF app = "utils" THEN <<>> ELSE w.files
              /\ session_state =
                    (app :> IF app = "utils" THEN <<>> ELSE InitSession(<<>>))
    /\ last = LastAuth("init", "", FALSE, FALSE, <<>>, <<>>)

\* an administrator sets the Assigned_Projects of an account
UpdateAssignment(user_id, assigned_projects) ==
    /\ "utils" \in DOMAIN session_state
    /\ \E r \in {update_user(session_state["utils"], files, user_id,
                              [Assigned_Projects |-> Str(assigned_projects)])} :
          /\ session_state' = [session_state EXCEPT !["utils"] = r.session]
          /\ files' = r.files
          /\ last' = LastAuth("update_user", "utils", r.ok, FALSE, user_id,
                              assigned_projects)
    /\ UNCHANGED <<calls, gsheets, is_online, mongo, tables_cache>>

AccessLogins ==
    { <<AdminText, Pw(AdminText)>>, <<Manager1, <<"m","a","n","a","g","e","r","1","2","3">> >>,
      <<ViewerText, Pw(ViewerText)>>, <<Ravi, Pw(Ravi)>>, <<Asha, Pw(Asha)>>,
      <<Mira, Pw(Mira)>>, <<Tara, Pw(Tara)>>, <<Asha, Pw(Ravi)>> }

\* what the create-user form is filled with
AccessAccounts ==
    { <<Ravi, Pw(Ravi), ViewerText, <<>> >>,
      <<Ravi, Pw(Ravi), ViewerText, <<MakeMyTrip>> >> }

NextAccess ==
    \/ \E l \in AccessLogins : AuthenticateUser(l[1], l[2])
    \/ \E l \in AccessLogins : AuthenticateUserMain(l[1], l[2])
    \/ \E l \in AccessLogins : AuthenticateUserComplete(l[1], l[2])
    \/ Logout
    \/ \E app \in {"main", "complete"} : LogoutMain(app)
    \/ \E a \in AccessAccounts : CreateUser(a[1], a[2], a[3], a[4])
    \/ UpdateAssignment(<<"v","i","e","w","e","r","0","0","1">>, AllText)
    \/ NewSession

SpecAccess == InitAccess /\ [][NextAccess]_vars

\* The accounts of the application built on utils/auth_manager.py
InitUsers ==
    /\ InitAuth
    /\ "utils" \in DOMAIN session_state

\* the users row-set as the session reads it
StoredUsers == read_excel_file(session_state["utils"], files)

AuthCreateUser(user_data) ==
    /\ Len(StoredUsers.rows) < MaxUsers
    /\ \E r \in {auth_create_user(session_state["utils"], files, user_data)} :
          /\ session_state' = [session_state EXCEPT !["utils"] = r.session]
          /\ files' = r.files
          /\ last' = LastAuth("create_user", "utils", r.ok, FALSE,
                              user_data["Username"].s, user_data["Password"].s)
    /\ UNCHANGED <<calls, gsheets, is_online, mongo, tables_cache>>

\* update_user with a Username among the values to set
UpdateUsername(user_id, username) ==
    /\ \E r \in {update_user(session_state["utils"], files, user_id,
                             [Username |-> Str(username)])} :
          /\ session_state' = [session_state EXCEPT !["utils"] = r.session]
          /\ files' = r.files
          /\ last' = LastAuth("update_user", "utils", r.ok, FALSE, user_id, username)
    /\ UNCHANGED <<calls, gsheets, is_online, mongo, tables_cache>>

\* the dicts given to AuthManager.create_user
NewUserData ==
    { [User_ID |-> Str(<<"u","0","0","5">>), Username |-> Str(u),
       Full_Name |-> Str(u), Password |-> Str(<<"r","a","v","i","1","2","3">>),
       Role |-> Str(ViewerText), Assigned_Projects |-> Str(Pilot),
       Email |-> Str(<<>>)] : u \in {Ravi, Manager1} }

Logins ==
    { <<AdminText, <<"a","d","m","i","n","1","2","3">> >>,
      <<Manager1, <<"m","a","n","a","g","e","r","1","2","3">> >>,
      <<Ravi, <<"r","a","v","i","1","2","3">> >>,
      <<Ravi, AdminText>> }

NextUsers ==
    \/ \E l \in Logins : AuthenticateUser(l[1], l[2])
    \/ Logout
    \/ NewSession
    \/ \E user_data \in NewUserData : AuthCreateUser(user_data)
    \/ \E user_id \in {<<"p","m","0","0","1">>, <<"u","0","0","5">>},
          username \in {AdminText, Ravi, Asha} : UpdateUsername(user_id, username)
    \/ \E status \in {ActiveText, InactiveText} : UpdateUser(<<"p","m","0","0","1">>, status)

SpecUsers == InitUsers /\ [][NextUsers]_vars

-----------------------------------------------------------------------------
(* Values as the backend stores them.  write_dataframe stores numbers and  *)
(* numeric text as floats, missing values and null texts as '', and an     *)
(* empty cell of a numeric column as 0.0.                                  *)

CanonText(cell) ==
    LET t == CleanText(cell) IN IF IsNumericText(t) THEN FloatText(t) ELSE t

\* the cell read back is the cell given, up to the storage normalisation
StoredAs(given, back) ==
    \/ CanonText(given) = CanonText(back)
    \/ CleanText(given) = <<>> /\ CanonText(back) = <<"0",".","0">>

\* row read back against row given, on the columns cs
RowStoredAs(given, back, cs) == \A c \in cs : StoredAs(given[c], back[c])

\* the frame read back holds the rows given, in their order
RowsStoredAs(given, back) ==
    /\ Len(back.rows) = Len(given.rows)
    /\ back.cols = given.cols
    /\ \A j \in 1..Len(given.rows) :
          RowStoredAs(given.rows[j], back.rows[j], given.cols)

\* the row-set of the operation that ran last, before and after the step
Before == get_table_data(mongo, files, last'.project, last'.table)

After == get_table_data(mongo', files', last'.project, last'.table)

-----------------------------------------------------------------------------
(* Claims.                                                                 *)

\* C1: delete_record(p, t, i) on a stored row-set of n >= 1 rows with
\* 0 <= i < n returns True, and a following read yields the n-1 other rows
\* in their order (also for n = 1, online and in local-file mode).
C1_DeleteRemovesRow ==
    [][ (/\ last'.op = "delete_record"
         /\ Len(Before.rows) >= 1
         /\ last'.idx < Len(Before.rows))
        => /\ last'.ret
           /\ Len(After.rows) = Len(Before.rows) - 1
           /\ \A j \in 1..Len(After.rows) :
                 RowStoredAs(DropRow(Before, last'.idx).rows[j], After.rows[j],
                             Before.cols) ]_vars

\* C2: after write_dataframe(p, t, df) returns True, a read of (p, t)
\* returns no row that is not a row of df, also for a df without rows.
C2_WriteOverwrites ==
    [][ (last'.op = "update_table_data" /\ last'.ret)
        => \A j \in 1..Len(After.rows) :
              \E k \in 1..Len(last'.df.rows) :
                 /\ After.cols = last'.df.cols
                 /\ RowStoredAs(last'.df.rows[k], After.rows[j], After.cols) ]_vars

\* C3: write_dataframe(p, t, df) returning True followed by read_dataframe
\* returns a row-set with the row count and the column set of df, also for
\* a df with declared columns and no rows.
C3_RoundTrip ==
    [][ (last'.op = "update_table_data" /\ last'.ret)
        => /\ Len(After.rows) = Len(last'.df.rows)
           /\ After.cols = last'.df.cols ]_vars

\* C4: create_table with a name already in the registry returns False and
\* leaves registry and row-sets as they were; a second create_table with the
\* name of a successful one returns False; after any create_table call the
\* registry holds exactly one definition with that name.
C4_CreateTableOnce ==
    [][ last'.op = "create_table"
        => /\ TableRows(Registry(mongo, files), last'.table) # {}
                => (~last'.ret /\ mongo' = mongo /\ files' = files)
           /\ (last.op = "create_table" /\ last.ret /\ last.table = last'.table)
                => ~last'.ret
           /\ Cardinality(TableRows(Registry(mongo', files'), last'.table)) = 1 ]_vars

\* the stored field list of a table
StoredFields(m, fl, table_name) == get_table_schema(m, fl, clear_cache, table_name)

\* C5: a successful add_field_to_table(T, f) followed by a successful
\* delete_field_from_table(T, f) leaves every project's row-set for T with
\* the columns it had before the add, and T with the field list it had.
C5_AddThenDeleteRestores ==
    [][ (/\ last.op = "add_field_to_table" /\ last.ret
         /\ last'.op = "delete_field_from_table" /\ last'.ret
         /\ last'.table = last.table /\ last'.field.name = last.field.name)
        => /\ \A p \in ProjectNames :
                 get_table_data(mongo', files', p, last.table).cols = last.snap.cols[p]
           /\ StoredFields(mongo', files', last.table) = last.snap.fields ]_vars

\* the new row of the add_record that ran last
NewRow == last'.df.rows[1]

\* C8 as stated: add_record(p, t, r) on n stored rows returns True and leaves
\* n+1 rows, the first n being the prior rows and the last being r, value
\* for value.
C8_AddRecordKeepsValues ==
    [][ last'.op = "add_record"
        => /\ last'.ret
           /\ Len(After.rows) = Len(Before.rows) + 1
           /\ \A j \in 1..Len(Before.rows) : \A c \in Before.cols :
                 After.rows[j][c] = Before.rows[j][c]
           /\ \A c \in DOMAIN NewRow : After.rows[Len(After.rows)][c] = NewRow[c] ]_vars

\* C8: add_record(p, t, r) on n stored rows returns True and leaves n+1
\* rows: the prior rows in their order, then r, each value as the backend
\* stores it; on a new table and a new project one add_record leaves one row.
C8_AddRecordAppends ==
    [][ last'.op = "add_record"
        => /\ last'.ret
           /\ Len(After.rows) = Len(Before.rows) + 1
           /\ \A j \in 1..Len(Before.rows) :
                 RowStoredAs(Before.rows[j], After.rows[j], Before.cols)
           /\ RowStoredAs(NewRow, After.rows[Len(After.rows)], DOMAIN NewRow) ]_vars

\* a record was added after another one, on a table and a project created
C8_Witness ==
    /\ last.op = "add_record" /\ last.ret
    /\ Pilot \in ExistingProjects
    /\ TableRows(Registry(mongo, files), SoilTests) # {}
    /\ Rows(Pilot, SoilTests) = 2

\* the rows of the registry that define other tables than the given one
OtherTables(m, fl, table_name) ==
    LET tables_df == Registry(m, fl)
    IN  {tables_df.rows[i] : i \in (1..Len(tables_df.rows)) \ TableRows(tables_df, table_name)}

\* C9: add_field_to_table(T, spec) returns False and changes neither the
\* registry nor a row-set when T holds a field named spec.name; when T
\* holds no such field it returns True, T's field list is the prior list
\* with spec appended, and every other table definition is unchanged.
C9_AddFieldResult ==
    [][ (/\ last'.op = "add_field_to_table"
         /\ TableRows(Registry(mongo, files), last'.table) # {})
        => IF last'.field.name \in FieldNames(StoredFields(mongo, files, last'.table))
           THEN ~last'.ret /\ mongo' = mongo /\ files' = files
           ELSE /\ last'.ret
                /\ StoredFields(mongo', files', last'.table)
                      = Append(StoredFields(mongo, files, last'.table), last'.field)
                /\ OtherTables(mongo', files', last'.table)
                      = OtherTables(mongo, files, last'.table) ]_vars

\* C10: after add_field_to_table(T, spec) returns True, the row-set for T of
\* every project associated with T, with rows or without, has a column
\* spec.name that holds the typed default in every row; the other columns
\* and the number of rows are unchanged.
C10_ColumnInEveryProject ==
    [][ (last'.op = "add_field_to_table" /\ last'.ret)
        => \A p \in ExistingProjects :
              LET b == get_table_data(mongo, files, p, last'.table)
                  a == get_table_data(mongo', files', p, last'.table)
              IN  /\ last'.field.name \in a.cols
                  /\ Len(a.rows) = Len(b.rows)
                  /\ \A j \in 1..Len(a.rows) :
                        /\ StoredAs(TypedDefault(last'.field), a.rows[j][last'.field.name])
                        /\ RowStoredAs(b.rows[j], a.rows[j],
                                       b.cols \ {last'.field.name}) ]_vars

\* the users row-set the application of the login that runs reads
UsersOf(app) ==
    IF app = "utils" THEN read_excel_file(session_state[app], files)
    ELSE read_dataframe(mongo, files, NoProject, UsersName)

\* positions of the stored accounts with the given username
StoredUser(users_df, username) ==
    {i \in 1..Len(users_df.rows) :
        \E c \in {"Username", "username"} \cap users_df.cols :
           CellEq(users_df.rows[i][c], username)}

\* the account is stored with a status that is not Active
NotActive(users_df, i) ==
    \E c \in {"Status", "status"} \cap users_df.cols :
       ~CellEq(users_df.rows[i][c], ActiveText)

\* the hash of the password is the stored hash of the account
HashMatches(app, users_df, i, password) ==
    \E c \in {"Password_Hash", "password"} \cap users_df.cols :
       CellEq(users_df.rows[i][c],
              IF app = "utils" THEN _hash_password(password)
              ELSE hash_password(password))

\* who the session is logged in as
AuthState(ss) ==
    [in |-> \/ Get(ss, "authenticated", Bool(FALSE)) = Bool(TRUE)
            \/ Get(ss, "logged_in", Bool(FALSE)) = Bool(TRUE),
     username |-> Get(ss, "username", PyNone),
     role |-> Get(ss, "role", PyNone),
     assigned_projects |-> Get(ss, "assigned_projects", PyNone)]

\* C6: in each of the three AuthManager implementations authenticate_user
\* returns False for a stored user whose status is not Active, also when
\* the password is the right one.
C6_InactiveRejected ==
    [][ (/\ last'.op = "authenticate_user"
         /\ \E i \in StoredUser(UsersOf(last'.app), last'.username) :
               NotActive(UsersOf(last'.app), i))
        => ~last'.ret ]_vars

\* C7: for a stored user and a password whose hash is not the stored one,
\* authenticate_user of utils/auth_manager.py and of main_mongodb.py returns
\* False and leaves the authentication state of the session unchanged.
C7_WrongPasswordRejected ==
    [][ (/\ last'.op = "authenticate_user"
         /\ last'.app \in {"utils", "main"}
         /\ StoredUser(UsersOf(last'.app), last'.username) # {}
         /\ \A i \in StoredUser(UsersOf(last'.app), last'.username) :
               ~HashMatches(last'.app, UsersOf(last'.app), i, last'.password))
        => /\ ~last'.ret
           /\ ~last'.raised
           /\ AuthState(session_state'[last'.app])
                 = AuthState(session_state[last'.app]) ]_vars

\* C11: after edit_field_in_table(T, old, new_spec) returns True with a new
\* name, every project row-set for T that had a column old has a column
\* new_spec.name with the values of old row by row and no column old, and
\* keeps its row count and its other columns and values, also when the new
\* name is the name of another column of T.
C11_RenameKeepsData ==
    [][ (/\ last'.op = "edit_field_in_table" /\ last'.ret
         /\ last'.field.name # last'.snap.old)
        => \A p \in ExistingProjects :
              LET b == get_table_data(mongo, files, p, last'.table)
                  a == get_table_data(mongo', files', p, last'.table)
                  old == last'.snap.old
                  new == last'.field.name
              IN  old \in b.cols
                  => /\ new \in a.cols
                     /\ old \notin a.cols
                     /\ a.cols = (b.cols \ {old}) \cup {new}
                     /\ Len(a.rows) = Len(b.rows)
                     /\ \A j \in 1..Len(a.rows) :
                           /\ StoredAs(b.rows[j][old], a.rows[j][new])
                           /\ RowStoredAs(b.rows[j], a.rows[j],
                                          b.cols \ {old}) ]_vars

\* C12: after delete_field_from_table(T, f) returns True, T has no field
\* named f and its other fields as before, and no project's row-set for T,
\* with rows or without, has a column f, its other columns, its rows and
\* their values being as before; the call returns False when T has no field
\* named f.
C12_DeleteFieldDropsColumn ==
    [][ (/\ last'.op = "delete_field_from_table"
         /\ TableRows(Registry(mongo, files), last'.table) # {})
        => LET f == last'.field.name
               before == StoredFields(mongo, files, last'.table)
           IN  /\ f \notin FieldNames(before) => ~last'.ret
               /\ last'.ret =>
                  /\ StoredFields(mongo', files', last'.table) = WithoutField(before, f)
                  /\ \A p \in ExistingProjects :
                        LET b == get_table_data(mongo, files, p, last'.table)
                            a == get_table_data(mongo', files', p, last'.table)
                        IN  /\ a.cols = b.cols \ {f}
                            /\ Len(a.rows) = Len(b.rows)
                            /\ \A j \in 1..Len(a.rows) :
                                  RowStoredAs(b.rows[j], a.rows[j], a.cols) ]_vars

\* the stored row-set of a project for a table: its collection and its file
StoredRowSet(m, fl, p, table_name) ==
    LET name == get_collection(p, CollectionName(table_name))
        path == _get_local_file_path(p, CollectionName(table_name))
    IN  [collection |-> IF name \in DOMAIN m THEN <<m[name]>> ELSE <<>>,
         file |-> IF path \in DOMAIN fl THEN <<fl[path]>> ELSE <<>>]

\* C13: after create_table(name, description, fields, associated_projects)
\* returns True, the row-set for the table of every project of the projects
\* row-set that is associated ("All", or its name, in associated_projects)
\* reads back with no rows and exactly the declared field names as columns,
\* and no row-set of a project that is not associated is created or changed.
C13_CreateTableProvisions ==
    [][ (last'.op = "create_table" /\ last'.ret)
        => \A p \in ExistingProjects :
              IF \/ InSeq(AllText, last'.snap.associated_projects)
                 \/ InSeq(p, last'.snap.associated_projects)
              THEN LET a == get_table_data(mongo', files', p, last'.table)
                   IN  a.rows = <<>> /\ a.cols = last'.df.cols
              ELSE StoredRowSet(mongo', files', p, last'.table)
                      = StoredRowSet(mongo, files, p, last'.table) ]_vars

\* nothing was written for the project and the name the read names
NeverWritten ==
    IF last'.snap.backend = "mongodb"
    THEN /\ get_collection(last'.project, last'.table) \notin DOMAIN mongo
         /\ _get_local_file_path(last'.project, last'.table) \notin DOMAIN files
    ELSE \/ SpreadsheetName(last'.project) \notin DOMAIN gsheets.spreadsheets
         \/ WorksheetName(last'.table)
               \notin DOMAIN gsheets.spreadsheets[SpreadsheetName(last'.project)]

\* C14: read_dataframe(p, t) of a backend returns an empty row-set and
\* raises nothing for a project p and a name t for which nothing was ever
\* written, and the call creates or changes no stored row-set.
C14_ReadOfNothing ==
    [][ (last'.op = "read_dataframe" /\ NeverWritten)
        => /\ IsEmpty(last'.df)
           /\ ~last'.snap.raised
           /\ mongo' = mongo /\ files' = files
           /\ gsheets'.spreadsheets = gsheets.spreadsheets ]_vars


\* names asked of has_project_access
AccessNames == {Pilot, Farm, <<"M","a","k","e","M","y","T","r","i","p">>, <<>>}

\* has_project_access of the application the session belongs to
HasAccess(app, project_name) ==
    IF app = "utils" THEN has_project_access(session_state[app], project_name)
    ELSE has_project_access_main(session_state[app], project_name)

\* the access the session is to have: everything for an administrator or the
\* assignment 'All', else the trimmed names of the assignment string
AccessDue(ss, project_name) ==
    /\ AuthState(ss).in
    /\ \/ CellEq(AuthState(ss).role, AdminText)
       \/ CellEq(AuthState(ss).assigned_projects, AllText)
       \/ /\ AuthState(ss).assigned_projects.k = "str"
          /\ InProjectList(AuthState(ss).assigned_projects.s, project_name)

\* C15: has_project_access(p) of an authenticated session is True for every
\* p when the role is admin or the assignment is 'All', else True exactly
\* for the comma-separated, trimmed names of the assignment string; for a
\* session that is not authenticated it is False for every p.
C15_ProjectAccess ==
    \A app \in DOMAIN session_state : \A p \in AccessNames :
       HasAccess(app, p) = IF AccessDue(session_state[app], p) THEN "True"
                           ELSE "False"


\* the step is the end of the call that last describes
EndsNow ==
    /\ "thread" \in DOMAIN last'.snap
    /\ calls[last'.snap.thread].op \in RaceOps
    /\ calls'[last'.snap.thread].op = "none"

\* the call that ends raced with exactly one call of the other thread: both
\* read the row-set before either rewrote it, and both rewrite it
RacedPair ==
    /\ last'.op \in RaceOps
    /\ EndsNow
    /\ Len(last'.snap.raced) = 1
    /\ last'.snap.raced[1].op = "add_record"
          \/ last'.snap.raced[1].idx < Len(last'.snap.raced[1].existing_data.rows)
    /\ last'.op = "add_record" \/ last'.idx < Len(last'.snap.existing_data.rows)

\* C16: when two of add_record, update_record, delete_record on one row-set
\* both read before either rewrites, both return True and the stored
\* row-set is the one the call that wrote last leaves on what it read: the
\* change of the other call is absent.
C16_LostUpdate ==
    [][ RacedPair => /\ last'.ret
                     /\ last'.snap.raced[1].ret
                     /\ After = last'.snap.alone ]_vars


\* the row the user picked, as the page showed it
ChosenRow == last'.snap.shown.rows[last'.idx + 1]

\* session A picked the row at index i, then a delete_record of a lower
\* index by the other session ended with True, then A's call ran whole
StaleIndex ==
    /\ last'.op \in {"delete_record", "update_record"}
    /\ EndsNow
    /\ last'.snap.raced = <<>>
    /\ Len(last'.snap.before) = 1
    /\ last'.snap.before[1].op = "delete_record"
    /\ last'.snap.before[1].ret
    /\ last'.snap.before[1].idx < last'.idx
    /\ last'.snap.before[1].existing_data = last'.snap.shown

\* C17: when another session's delete_record of an index j < i completes
\* between session A picking the row r at index i and A's delete_record or
\* update_record of index i, A's call returns True and removes or patches
\* the row now at index i, a different row, while r stays stored, or it
\* returns False, changing nothing, when i is no longer in range.
C17_PositionalIdentity ==
    [][ StaleIndex =>
          IF last'.idx < Len(Before.rows)
          THEN /\ last'.ret
               /\ Before.rows[last'.idx + 1] # ChosenRow
               /\ After = IF last'.op = "delete_record"
                          THEN DropRow(Before, last'.idx)
                          ELSE Patch(Before, last'.idx, last'.df.rows[1])
               /\ After.rows[last'.idx] = ChosenRow
          ELSE /\ ~last'.ret
               /\ After = Before ]_vars

\* a stale index removed a row the user did not pick
C17_Witness ==
    /\ last.op = "delete_record"
    /\ last.ret
    /\ "before" \in DOMAIN last.snap
    /\ last.snap.before # <<>>
    /\ last.snap.before[1].op = "delete_record"
    /\ last.snap.before[1].idx < last.idx
    /\ \E i \in 1..Len(get_table_data(mongo, files, last.project, last.table).rows) :
          get_table_data(mongo, files, last.project, last.table).rows[i]
             = last.snap.shown.rows[last.idx + 1]


\* the call that last describes wrote the field to the registry and then
\* failed in the loop over the projects
FailedPropagation ==
    /\ last.op = "add_field_to_table"
    /\ ~last.ret
    /\ last.snap.fields # <<>>
    /\ last.field.name \notin FieldNames(last.snap.fields)

\* projects whose row-set for the table has rows and no column of the name
Unmigrated(m, fl, table_name, name) ==
    {p \in ProjectNames :
        /\ ~IsEmpty(get_table_data(m, fl, p, table_name))
        /\ name \notin get_table_data(m, fl, p, table_name).cols}

\* C18: when add_field_to_table(T, spec) has written the registry and the
\* propagation to a project failed, the registry holds spec in T's
\* definition while the row-set of that project lacks the column; the same
\* add_field_to_table(T, spec) again returns False and leaves the registry
\* and the row-set as they are, the column still missing.
C18_NotRepaired ==
    [][ (/\ FailedPropagation
         /\ last'.op = "add_field_to_table"
         /\ last'.table = last.table
         /\ last'.field = last.field)
        => /\ InSeq(last.field, StoredFields(mongo, files, last.table))
           /\ Unmigrated(mongo, files, last.table, last.field.name) # {}
           /\ ~last'.ret
           /\ StoredFields(mongo', files', last.table)
                 = StoredFields(mongo, files, last.table)
           /\ \A p \in ProjectNames :
                 get_table_data(mongo', files', p, last.table)
                    = get_table_data(mongo, files, p, last.table) ]_vars

\* the second of two failed calls: the field is in the registry, the call
\* found it there, and the row-set of a project has no such column
C18_Witness ==
    /\ last.op = "add_field_to_table"
    /\ ~last.ret
    /\ last.field.name \in FieldNames(last.snap.fields)
    /\ Unmigrated(mongo, files, last.table, last.field.name) # {}


\* the cell of row j and column c that update_record is to leave, b being
\* the row-set before the call
Patched(b, j, c) ==
    IF j = last'.idx + 1 /\ c \in last'.df.cols THEN last'.df.rows[1][c]
    ELSE b.rows[j][c]

\* C19 as stated: update_record(p, t, i, patch) with 0 <= i < n returns
\* True, keeps the columns, the row count and the order, sets in row i the
\* patch fields that are columns and leaves every other value as it was;
\* on an empty row-set or with i >= n it returns False and changes nothing.
C19_UpdateRecordExact ==
    [][ last'.op = "update_record"
        => \A b \in {Before} : \A a \in {After} :
           IF ~IsEmpty(b) /\ last'.idx < Len(b.rows)
           THEN /\ last'.ret
                /\ a.cols = b.cols
                /\ Len(a.rows) = Len(b.rows)
                /\ \A j \in 1..Len(b.rows) : \A c \in b.cols :
                      a.rows[j][c] = Patched(b, j, c)
           ELSE ~last'.ret /\ a = b ]_vars

\* C19: update_record(p, t, i, patch) with 0 <= i < n returns True, keeps
\* the columns, the row count and the order, sets in row i the patch fields
\* that are columns and leaves every other value as it was, each value as
\* the backend stores it; on an empty row-set or with i >= n it returns
\* False and changes nothing.
C19_UpdateRecordFrame ==
    [][ last'.op = "update_record"
        => \A b \in {Before} : \A a \in {After} :
           IF ~IsEmpty(b) /\ last'.idx < Len(b.rows)
           THEN /\ last'.ret
                /\ a.cols = b.cols
                /\ Len(a.rows) = Len(b.rows)
                /\ \A j \in 1..Len(b.rows) : \A c \in b.cols :
                      StoredAs(Patched(b, j, c), a.rows[j][c])
           ELSE ~last'.ret /\ a = b ]_vars

\* the second of two rows was patched with a key that is no column
C19_Witness ==
    /\ last.op = "update_record" /\ last.ret
    /\ last.idx = 1
    /\ Rows(last.project, last.table) = 2
    /\ last.df.cols \ get_table_data(mongo, files, last.project, last.table).cols # {}


\* no two fields of the list have one name
UniqueNames(fields) ==
    \A i \in 1..Len(fields) : \A j \in 1..Len(fields) :
       fields[i].name = fields[j].name => i = j

\* C20 as stated: after any sequence of create_table, add_field_to_table,
\* edit_field_in_table and delete_field_from_table calls no table definition
\* of the registry holds two fields with the same name.
C20_FieldNamesUnique ==
    \A table_name \in TableNames : UniqueNames(StoredFields(mongo, files, table_name))

\* C20: add_field_to_table and delete_field_from_table on a table whose
\* field names are unique leave them unique; edit_field_in_table does not
\* check the new name.
C20_AddKeepsUnique ==
    [][ (/\ last'.op \in {"add_field_to_table", "delete_field_from_table"}
         /\ UniqueNames(StoredFields(mongo, files, last'.table)))
        => UniqueNames(StoredFields(mongo', files', last'.table)) ]_vars

\* add_field_to_table has refused a name the table holds
C20_Witness ==
    /\ last.op = "add_field_to_table"
    /\ ~last.ret
    /\ last.field.name \in FieldNames(StoredFields(mongo, files, last.table))
    /\ UniqueNames(StoredFields(mongo, files, last.table))

\* C21: project names are unique: after any sequence of project creations
\* through the creation paths, the stored projects row-set holds no two rows
\* with the same Project_Name.
C21_ProjectNamesUnique ==
    \A i \in 1..Len(StoredProjects.rows) : \A j \in 1..Len(StoredProjects.rows) :
        StoredProjects.rows[i]["Project_Name"] = StoredProjects.rows[j]["Project_Name"]
            => i = j

\* C22: usernames are unique: after any sequence of AuthManager.create_user,
\* AuthManager.update_user and default-user initialisation, the users
\* row-set holds no two rows with the same Username.
C22_UsernamesUnique ==
    \A i \in 1..Len(StoredUsers.rows) : \A j \in 1..Len(StoredUsers.rows) :
        StoredUsers.rows[i]["Username"] = StoredUsers.rows[j]["Username"] => i = j

\* the step is a call of one of the three field operations
SchemaCall ==
    last'.op \in {"add_field_to_table", "edit_field_in_table", "delete_field_from_table"}

\* the definition get_table_schema gives every session, before and after
SessionSchemas ==
    [s \in Sessions |-> [t \in TableNames |->
        get_table_schema(mongo, files, tables_cache[s], t)]]

SessionSchemasAfter ==
    [s \in Sessions |-> [t \in TableNames |->
        get_table_schema(mongo', files', tables_cache'[s], t)]]

\* the call is an add_field_to_table that writes the registry and then
\* fails in the propagation: float(default) raises on a row-set with rows
PropagationFails ==
    /\ last'.op = "add_field_to_table"
    /\ FloatRaises(last'.field)
    /\ last'.snap.fields # <<>>
    /\ last'.field.name \notin FieldNames(last'.snap.fields)
    /\ Unmigrated(mongo, files, last'.table, last'.field.name) # {}

C24_OnlyStoredCredentials ==
    [][ (/\ last'.op = "authenticate_user"
         /\ \/ last'.ret
            \/ /\ AuthState(session_state'[last'.app]).in
               /\ ~AuthState(session_state[last'.app]).in)
        => \E i \in StoredUser(UsersOf(last'.app), last'.username) :
              HashMatches(last'.app, UsersOf(last'.app), i, last'.password) ]_vars

\* C25: get_all_tables is read-only once table definitions exist: when the
\* stored registry holds a definition, no call of get_all_tables replaces or
\* removes a stored definition, also when the read of the registry returned
\* an empty row-set because storage was unavailable at that moment.
C25_GetAllTablesReadOnly ==
    [][ (last'.op = "get_all_tables" /\ ~IsEmpty(Registry(mongo, files)))
        => Registry(mongo', files') = Registry(mongo, files) ]_vars

\* C26: registry updates of different sessions are not lost: a field added
\* to a table by a successful add_field_to_table stays in the stored
\* registry when a session, also one whose cache was filled before that
\* change, next runs a successful add_field_to_table, edit_field_in_table
\* or delete_field_from_table that is not about that field.
C26_RegistryUpdatesKept ==
    [][ (/\ last.op = "add_field_to_table"
         /\ last.ret
         /\ SchemaCall
         /\ last'.ret
         /\ ~(last'.op = "delete_field_from_table"
                /\ last'.field.name = last.field.name)
         /\ ~(last'.op = "edit_field_in_table" /\ last'.snap.old = last.field.name))
        => InSeq(last.field, StoredFields(mongo', files', last.table)) ]_vars

\* C27: two table definitions with different table_name never share a
\* physical row-set: for every project, a create_table(name, ...) that
\* returns True never removes or changes rows stored for a table registered
\* under another name, also when the names differ only in letter case or
\* in a space versus an underscore.
C27_NoSharedRowSet ==
    [][ (last'.op = "create_table" /\ last'.ret)
        => \A p \in ProjectNames, t \in LikeNames \ {last'.table} :
              TableRows(Registry(mongo, files), t) # {}
                 => get_table_data(mongo', files', p, t).rows
                       = get_table_data(mongo, files, p, t).rows ]_vars

\* the session of the application that runs
TheApp == CHOOSE app \in Apps : app \in DOMAIN session_state

TheSession == session_state[TheApp]

\* the project names that exist for the application
AllProjects ==
    IF TheApp = "utils" THEN PROJECTS
    ELSE LET projects_df == read_dataframe(mongo, files, NoProject, ProjectsName)
         IN  [i \in 1..Len(projects_df.rows) |->
                 PyText(projects_df.rows[i]["Project_Name"])]

\* the lists of accessible projects the application computes for the session
AccessLists ==
    IF TheApp = "utils"
    THEN {get_accessible_projects(TheSession, PROJECTS),
          get_user_accessible_projects(TheSession, PROJECTS)}
    ELSE {get_accessible_projects_main(TheSession, mongo, files)}

SessionRole == Get(TheSession, "role", PyNone)

SessionAssignment == Get(TheSession, "assigned_projects", PyNone)

\* the session has no assignment: the empty string, or the NaN that
\* pd.read_excel gives for an empty cell
NoAssignment == SessionAssignment = Str(<<>>) \/ SessionAssignment.k = "nan"

\* C28: for an authenticated user whose role is not admin and whose
\* assignment is not "All", every list of accessible projects computed for
\* the session holds only existing projects named in the comma-separated
\* assignment string, and is empty for an empty assignment string.
C28_AccessibleProjects ==
    (/\ AuthState(TheSession).in
     /\ ~CellEq(SessionRole, AdminText)
     /\ ~CellEq(SessionAssignment, AllText))
    => \A r \in AccessLists :
          ~r.raised
          => /\ \A i \in 1..Len(r.list) :
                   /\ InSeq(r.list[i], AllProjects)
                   /\ SessionAssignment.k = "str"
                   /\ InProjectList(SessionAssignment.s, r.list[i])
             /\ NoAssignment => r.list = <<>>

\* can_edit_data and has_project_access of the application that runs
CanEdit(project_name) ==
    IF TheApp = "utils" THEN can_edit_data(TheSession, project_name)
    ELSE can_edit_data_main(TheSession, project_name)

MayAccess(project_name) ==
    IF TheApp = "utils" THEN has_project_access(TheSession, project_name)
    ELSE has_project_access_main(TheSession, project_name)

\* the project names the checks are asked about
NamedProjects == {Pilot, Farm, MakeMyTrip, Absolute}

\* C29: can_edit_data(p) for a named project p returns True only if the
\* session is authenticated, the role is admin or project_manager, and
\* has_project_access(p) holds; a session with role viewer is never allowed
\* to edit, whatever its assignment string, "All" included.
C29_CanEditData ==
    \A p \in NamedProjects :
        /\ CanEdit(p) = "True"
              => /\ AuthState(TheSession).in
                 /\ \/ CellEq(SessionRole, AdminText)
                    \/ CellEq(SessionRole, ProjectManagerText)
                 /\ MayAccess(p) = "True"
        /\ CellEq(SessionRole, ViewerName) => CanEdit(p) # "True"

\* a viewer assigned "All" is logged in, and so may access every project
C29_Witness ==
    /\ AuthState(TheSession).in
    /\ CellEq(SessionRole, ViewerName)
    /\ CellEq(SessionAssignment, AllText)
    /\ \A p \in NamedProjects : MayAccess(p) = "True"

\* the roles has_role is asked about
RoleNames == {AdminText, ProjectManagerText, ViewerName}

\* what the access functions of the application answer for a session that
\* is unauthenticated
Unauthenticated(app, ss, m, fl) ==
    IF app = "utils"
    THEN /\ ~is_authenticated(ss)
         /\ \A r \in RoleNames : ~has_role(ss, r)
         /\ \A p \in NamedProjects :
               /\ has_project_access(ss, p) = "False"
               /\ can_edit_data(ss, p) = "False"
         /\ get_accessible_projects(ss, PROJECTS) = Listed(<<>>)
    ELSE /\ Get(ss, "logged_in", Bool(FALSE)) # Bool(TRUE)
         /\ \A p \in NamedProjects :
               /\ has_project_access_main(ss, p) = "False"
               /\ can_edit_data_main(ss, p) = "False"
         /\ get_accessible_projects_main(ss, m, fl) = Listed(<<>>)

\* the keys under which a session holds who is logged in
PersonalKeys == {"username", "role", "assigned_projects"}

\* the session holds the value under the key, itself or in a dict it stores
Keeps(ss, key, value) ==
    \/ key \in DOMAIN ss /\ ss[key] = value
    \/ \E k \in DOMAIN ss :
          /\ ss[k].k = "dict"
          /\ key \in DOMAIN ss[k].d
          /\ ss[k].d[key] = value

\* the session holds a username, role or assignment string of the user of
\* the session before
KeepsUserOf(before, ss) ==
    \E key \in PersonalKeys :
       /\ key \in DOMAIN before
       /\ before[key].k = "str"
       /\ Keeps(ss, key, before[key])

\* C30: after logout, and until the next authenticate_user call that returns
\* True, the session is unauthenticated: is_authenticated, has_role,
\* has_project_access and can_edit_data are False for every role and
\* project, get_accessible_projects is empty, and the session state holds
\* no username, role or assignment string of the user who logged out.
\* Stated step by step: logout leaves such a session, and every step other
\* than an authenticate_user call that returns True keeps it unauthenticated.
C30_LoggedOutUntilLogin ==
    [][ /\ last'.op = "logout"
           => /\ Unauthenticated(last'.app, session_state'[last'.app], mongo', files')
              /\ ~KeepsUserOf(session_state[last'.app], session_state'[last'.app])
        /\ (/\ Unauthenticated(TheApp, TheSession, mongo, files)
            /\ ~(last'.op = "authenticate_user" /\ last'.ret))
           => Unauthenticated(TheApp, session_state'[TheApp], mongo', files') ]_vars

=============================================================================
